---- MODULE Spec2Model ----
(***************************************************************************)
(* ClestiqShield-AgentCore: the /chat request pipeline.                    *)
(*   Gateway   (services/gateway)        authenticate, dispatch, translate *)
(*                                       the verdict, account usage        *)
(*   Sentinel  (services/security-agent) security_check -> toon_converter  *)
(*                                       -> model stage -> Guardian call   *)
(*   Guardian  (services/guardian)       output validation                 *)
(*                                                                         *)
(* Conventions.                                                            *)
(*  - A text is a sequence of atoms (strings); an atom is a word, a PII    *)
(*    literal, a pseudonymization token or an attack fragment.             *)
(*  - An Optional value is a set: {} is None, {v} is the value v.          *)
(*  - Scores and confidences are integers in thousandths (0.7 is 700).     *)
(***************************************************************************)
EXTENDS Integers, Sequences, FiniteSets, TLC

\* ------------------------------------------------------------------ basics

None == {}
Some(x) == {x}
Get(o) == CHOOSE x \in o : TRUE

\* Python truthiness of an Optional[str]: None and "" are falsy.
Truthy(o) == o # {} /\ Get(o) # <<>>

\* a or b or c or d, over Optional texts, ending in a plain text.
OrElse(a, b, c, d) ==
    IF Truthy(a) THEN Get(a)
    ELSE IF Truthy(b) THEN Get(b)
    ELSE IF Truthy(c) THEN Get(c)
    ELSE d

Max2(a, b) == IF a >= b THEN a ELSE b
Min2(a, b) == IF a <= b THEN a ELSE b

RECURSIVE SeqMax(_)
SeqMax(s) == IF Len(s) = 1 THEN s[1] ELSE Max2(s[1], SeqMax(Tail(s)))

RECURSIVE SumSeq(_)
SumSeq(s) == IF s = <<>> THEN 0 ELSE s[1] + SumSeq(Tail(s))

MapSeq(s, F(_)) == [i \in 1..Len(s) |-> F(s[i])]

Range(s) == {s[i] : i \in 1..Len(s)}

\* str.replace(old, new) on a text, atom by atom.
Replace(text, old, new) == [i \in 1..Len(text) |-> IF text[i] = old THEN new ELSE text[i]]

\* ", ".join(parts) as a sequence of string pieces.
RECURSIVE Join(_, _)
Join(sep, parts) ==
    IF parts = <<>> THEN <<>>
    ELSE IF Len(parts) = 1 THEN <<parts[1]>>
    ELSE <<parts[1], sep>> \o Join(sep, Tail(parts))

\* ------------------------------------------------------ number formatting

DigitChars == <<"0", "1", "2", "3", "4", "5", "6", "7", "8", "9">>
Digit(d) == DigitChars[d + 1]

\* f"{x:.3f}" of x = s/1000, 0 <= s < 10000.
Fmt3(s) == <<Digit(s \div 1000), ".", Digit((s \div 100) % 10),
             Digit((s \div 10) % 10), Digit(s % 10)>>

\* f"{x:.2f}" of x = s/1000: rounded to hundredths.
Fmt2(s) == LET h == (s + 5) \div 10
           IN  <<Digit(h \div 100), ".", Digit((h \div 10) % 10), Digit(h % 10)>>

\* float(header) back in thousandths, for a header Fmt3 produced.
DigitValue(c) == CHOOSE d \in 0..9 : Digit(d) = c
Parse3(h) == DigitValue(h[1]) * 1000 + DigitValue(h[3]) * 100
             + DigitValue(h[4]) * 10 + DigitValue(h[5])

\* ------------------------------------------------------------------- atoms

\* PII literals and the type the PII patterns give them.
SsnLiterals == {"123-45-6789", "987-65-4321"}
EmailLiterals == {"j@x.com"}
Literals == SsnLiterals \cup EmailLiterals

\* The tokens [<TYPE>_<n>], n = 1, 2, ... per type.
TokenTable == [SSN |-> <<"[SSN_1]", "[SSN_2]">>, EMAIL |-> <<"[EMAIL_1]">>]
TokenOf(type, n) == TokenTable[type][n]

\* html.escape(atom): & < > " ' are replaced by entities.
EscapeAtom(a) ==
    CASE a = "'" -> "&#x27;"
      [] a = "<script>" -> "&lt;script&gt;"
      [] OTHER -> a

\* len(atom) in characters.
AtomChars(a) ==
    CASE a = "hello" -> 5
      [] a \in SsnLiterals -> 11
      [] a \in EmailLiterals -> 7
      [] a \in {"[SSN_1]", "[SSN_2]"} -> 7
      [] a = "[EMAIL_1]" -> 9
      [] a = "--" -> 2
      [] a = "../" -> 3
      [] a = "'" -> 1
      [] a = "&#x27;" -> 6
      [] a = "<script>" -> 8
      [] a = "&lt;script&gt;" -> 14
      [] a = "fine" -> 4
      [] a = "kill someone" -> 12
      [] OTHER -> 1

\* len(text): the atoms and one separating space between neighbours.
CharLen(text) ==
    IF text = <<>> THEN 0 ELSE SumSeq(MapSeq(text, AtomChars)) + (Len(text) - 1)

\* ------------------------------------------------- sanitizers.py (Sentinel)

MaxInputChars == 10000

RECURSIVE TruncateTo(_, _)
\* text[:limit], cut at an atom boundary.
TruncateTo(text, limit) ==
    IF CharLen(text) <= limit THEN text
    ELSE TruncateTo(SubSeq(text, 1, Len(text) - 1), limit)

IsNul(a) == a = "\\x00"
NotNul(a) == ~IsNul(a)

\* InputSanitizer.sanitize_input: NFKC, strip NUL, flag "../", html.escape,
\* collapse whitespace, truncate. Returns the text and the warnings.
sanitize_input(text) ==
    LET hasNul == \E i \in 1..Len(text) : IsNul(text[i])
        t2 == SelectSeq(text, NotNul)
        hasTraversal == \E i \in 1..Len(t2) : t2[i] = "../"
        t4 == MapSeq(t2, EscapeAtom)
        tooLong == CharLen(t4) > MaxInputChars
        t6 == IF tooLong THEN TruncateTo(t4, MaxInputChars) ELSE t4
    IN  [text |-> t6,
         warnings |-> (IF hasNul THEN <<"Null bytes detected and removed">> ELSE <<>>)
                   \o (IF hasTraversal THEN <<"Path traversal pattern detected">> ELSE <<>>)
                   \o (IF tooLong THEN <<"Input truncated">> ELSE <<>>)]

\* ------------------------------------- PIIRedactor.pseudonymize_pii (spec)

IsSsn(a) == a \in SsnLiterals
IsEmail(a) == a \in EmailLiterals

RECURSIVE Dedup(_)
\* The distinct elements of s in order of first occurrence.
Dedup(s) ==
    IF s = <<>> THEN <<>>
    ELSE LET r == Dedup(SubSeq(s, 1, Len(s) - 1))
         IN  IF s[Len(s)] \in Range(r) THEN r ELSE Append(r, s[Len(s)])

\* The pairs <<token, literal>> of one type, n counting up from 1.
TypeMapping(type, lits) == [i \in 1..Len(lits) |-> <<TokenOf(type, i), lits[i]>>]

\* The token a mapping gives a literal.
TokenFor(mapping, a) == (CHOOSE i \in 1..Len(mapping) : mapping[i][2] = a)

\* Pseudonymization as section 4.2.2 states it: each distinct literal gets the
\* token [<TYPE>_<n>], n per type, and is substituted in the text; pii_map
\* records token -> literal in allocation order.
pseudonymize_pii(text) ==
    LET ssns == SelectSeq(text, IsSsn)
        mails == SelectSeq(text, IsEmail)
        mapping == TypeMapping("SSN", Dedup(ssns)) \o TypeMapping("EMAIL", Dedup(mails))
        out == [i \in 1..Len(text) |->
                   IF text[i] \in Literals
                   THEN mapping[TokenFor(mapping, text[i])][1]
                   ELSE text[i]]
    IN  [text |-> out,
         detections |-> (IF ssns # <<>> THEN <<[type |-> "SSN", count |-> Len(ssns)]>> ELSE <<>>)
                     \o (IF mails # <<>> THEN <<[type |-> "EMAIL", count |-> Len(mails)]>> ELSE <<>>),
         mapping |-> mapping]

\* ------------------------------------------------- depseudonymization

RECURSIVE depseudonymize(_, _)
\* for token, original_value in pii_mapping.items():
\*     validated_response = validated_response.replace(token, original_value)
depseudonymize(text, mapping) ==
    IF mapping = <<>> THEN text
    ELSE depseudonymize(Replace(text, mapping[1][1], mapping[1][2]), Tail(mapping))

\* ------------------------------------------------------ threat_detectors.py

ConfPerMatch == 300
PathConfPerMatch == 400
ConfMax == 1000

\* len(pattern.findall(atom)) summed over the detector's patterns.
SqlMatches(a) == CASE a = "--" -> 1  [] a = "#" -> 1  [] a = "&#x27;" -> 1  [] OTHER -> 0
XssMatches(a) == CASE a = "<script>" -> 1  [] OTHER -> 0
CmdMatches(a) == CASE a = "&#x27;" -> 2  [] a = "&lt;script&gt;" -> 4  [] OTHER -> 0
PathMatches(a) == CASE a = "../" -> 1  [] OTHER -> 0

\* A faulty confidence without the cap at 1.0.
ConfidenceUncapped(m, perMatch) == m * perMatch

\* min(len(matches) * 0.3, 1.0); 0.4 for path traversal.
Confidence(m, perMatch) == Min2(m * perMatch, ConfMax)

DetectorResult(type, m, perMatch) ==
    [detected |-> m > 0, threat_type |-> type, confidence |-> Confidence(m, perMatch)]

detect_sql_injection(text) ==
    DetectorResult("sql_injection", SumSeq(MapSeq(text, SqlMatches)), ConfPerMatch)
detect_xss(text) ==
    DetectorResult("xss", SumSeq(MapSeq(text, XssMatches)), ConfPerMatch)
detect_command_injection(text) ==
    DetectorResult("command_injection", SumSeq(MapSeq(text, CmdMatches)), ConfPerMatch)
detect_path_traversal(text) ==
    DetectorResult("path_traversal", SumSeq(MapSeq(text, PathMatches)), PathConfPerMatch)


\* ----------------------------------------------------------------- state

VARIABLES
    settings,   \* Sentinel's service settings (core/config.py), fixed per deployment
    wiring,     \* which node serves the model stage and which Guardian judge code runs
    req,        \* the public /chat request: header key, body
    db,         \* the api_keys table: key hash -> row
    gw,         \* the Gateway handler (chat_request) of the request
    st,         \* Sentinel's AgentState
    spc,        \* Sentinel's position in its graph
    tasks,      \* the two tasks of the model fan-out
    calls,      \* every model call issued so far: <<kind, text sent>>, in order
    grd,        \* the Sentinel -> Guardian call and Guardian's validation
    reply,      \* Sentinel's HTTP reply to the Gateway (Optional)
    stages,     \* the graph nodes that ran, in order
    handlers,   \* concurrent chat_request handlers sharing one key (SpecConc)
    roundtrip,  \* a value taken through an encoding and back (SpecPII, SpecToon)
    gd,         \* Guardian serving one /validate request (SpecGuardian)
    redis       \* one rate-limit key in Redis and the calls working on it (SpecRate)

vars == <<settings, wiring, req, db, gw, st, spc, tasks, calls, grd, reply, stages,
          handlers, roundtrip, gd, redis>>

\* The variables of the side specifications.
aside == <<handlers, roundtrip, gd, redis>>

\* --------------------------------------------- security.py: security_check

ThreatBlockThreshold == 700
SECURITY_LLM_CHECK_THRESHOLD == 850

IsDetected(t) == t.detected
ThreatType(t) == t.threat_type
ThreatConfidence(t) == t.confidence

\* Step 3: the detectors in order; SQL, XSS and command injection are gated by
\* the service settings, path traversal always runs.
DetectThreats(cfg, text) ==
    SelectSeq(
        (IF cfg.SECURITY_SQL_INJECTION_DETECTION_ENABLED
            THEN <<detect_sql_injection(text)>> ELSE <<>>)
        \o (IF cfg.SECURITY_XSS_PROTECTION_ENABLED
            THEN <<detect_xss(text)>> ELSE <<>>)
        \o (IF cfg.SECURITY_COMMAND_INJECTION_DETECTION_ENABLED
            THEN <<detect_command_injection(text)>> ELSE <<>>)
        \o <<detect_path_traversal(text)>>,
        IsDetected)

\* max(t["confidence"] for t in threats), threats non-empty.
MaxConfidence(threats) == SeqMax(MapSeq(threats, ThreatConfidence))

\* A faulty block test that uses the threshold of the step-4 score.
ThreatBlockedAboveLlmThreshold(threats) ==
    threats # <<>> /\ MaxConfidence(threats) > SECURITY_LLM_CHECK_THRESHOLD

\* if threats: ... if max_confidence >= 0.7
ThreatBlocked(threats) ==
    threats # <<>> /\ MaxConfidence(threats) >= ThreatBlockThreshold

\* f"Security threats detected: {', '.join(threat_types)}"
ThreatBlockReason(threats) ==
    <<"Security threats detected: ">> \o Join(", ", MapSeq(threats, ThreatType))

\* The dict `result` as security_check initialises it (lines 135-146).
InitialResult ==
    [security_score |-> 0, is_blocked |-> FALSE, block_reason |-> None,
     sanitized_input |-> None, sanitization_warnings |-> <<>>,
     pii_detections |-> <<>>, redacted_input |-> None, pii_mapping |-> <<>>,
     detected_threats |-> <<>>]

\* The early return for an empty prompt (lines 115-132).
EmptyInputResult ==
    [InitialResult EXCEPT !.sanitized_input = Some(<<>>), !.redacted_input = Some(<<>>)]

\* Steps 1-3 on a non-empty prompt: `result` and the text the later steps see.
SecuritySteps(cfg, prompt) ==
    LET san == sanitize_input(prompt)
        u1 == IF cfg.SECURITY_SANITIZATION_ENABLED THEN san.text ELSE prompt
        pii == pseudonymize_pii(u1)
        u2 == IF cfg.SECURITY_PII_REDACTION_ENABLED THEN pii.text ELSE u1
        r1 == IF cfg.SECURITY_SANITIZATION_ENABLED
              THEN [InitialResult EXCEPT !.sanitized_input = Some(san.text),
                                         !.sanitization_warnings = san.warnings]
              ELSE InitialResult
        r2 == IF cfg.SECURITY_PII_REDACTION_ENABLED
              THEN [r1 EXCEPT !.pii_detections = pii.detections,
                              !.redacted_input = Some(pii.text),
                              !.pii_mapping = pii.mapping]
              ELSE r1
    IN  [result |-> [r2 EXCEPT !.detected_threats = DetectThreats(cfg, u2)],
         user_input |-> u2]

\* A faulty threat block that leaves the score at its initial 0.0.
ThreatBlockResultUnscored(result) ==
    [result EXCEPT !.is_blocked = TRUE,
                   !.block_reason = Some(ThreatBlockReason(result.detected_threats))]

\* The return of lines 263-269.
ThreatBlockResult(result) ==
    [result EXCEPT !.security_score = MaxConfidence(result.detected_threats),
                   !.is_blocked = TRUE,
                   !.block_reason = Some(ThreatBlockReason(result.detected_threats))]

\* A faulty step 4 that takes the chain's score and drops the threat score.
LlmCheckResultChainScoreOnly(result, llm) ==
    LET score == llm.security_score
        final_blocked == llm.is_blocked \/ score > SECURITY_LLM_CHECK_THRESHOLD
    IN  [result EXCEPT
            !.security_score = score,
            !.is_blocked = final_blocked,
            !.block_reason =
                IF llm.is_blocked THEN llm.reason
                ELSE IF final_blocked
                     THEN Some(<<"Combined security score too high: ">> \o Fmt2(score))
                     ELSE None]

\* Step 4, after the chain returned llm: [security_score, is_blocked, reason].
LlmCheckResult(result, llm) ==
    LET threats == result.detected_threats
        score == IF threats # <<>>
                 THEN Max2(llm.security_score, MaxConfidence(threats))
                 ELSE llm.security_score
        final_blocked == llm.is_blocked \/ score > SECURITY_LLM_CHECK_THRESHOLD
    IN  [result EXCEPT
            !.security_score = score,
            !.is_blocked = final_blocked,
            !.block_reason =
                IF llm.is_blocked THEN llm.reason
                ELSE IF final_blocked
                     THEN Some(<<"Combined security score too high: ">> \o Fmt2(score))
                     ELSE None]

\* The except branch (lines 325-339): fail safe.
FailSafeResult(result) ==
    [result EXCEPT !.security_score = 1000,
                   !.is_blocked = TRUE,
                   !.block_reason = Some(<<"Security verification failed">>)]


\* ------------------------------------------------- Sentinel: graph and nodes

\* main.py lines 98-115: the initial AgentState of a request.
InitialState ==
    [security_score |-> 0, is_blocked |-> FALSE, block_reason |-> None,
     sanitized_input |-> None, sanitization_warnings |-> <<>>,
     pii_detections |-> <<>>, redacted_input |-> None, pii_mapping |-> <<>>,
     detected_threats |-> <<>>,
     toon_query |-> None, token_savings |-> 0,
     llm_response |-> None, llm_tokens_used |-> None, model_used |-> None,
     error |-> FALSE, security_llm_check |-> None,
     disclaimer_injected |-> None, toxicity_score |-> None]

\* A node's returned dict merged into the graph state.
Merge(state, upd) ==
    [k \in DOMAIN state |-> IF k \in DOMAIN upd THEN upd[k] ELSE state[k]]

\* A faulty routing that forgets the is_blocked test.
route_ignoring_block(state, cfg) ==
    IF cfg.TOON_CONVERSION_ENABLED THEN "toon_converter"
    ELSE IF cfg.LLM_FORWARD_ENABLED THEN "llm_node"
    ELSE "END"

\* graph.py route_after_security (lines 32-43).
route_after_security(state, cfg) ==
    IF state.is_blocked THEN "END"
    ELSE IF cfg.TOON_CONVERSION_ENABLED THEN "toon_converter"
    ELSE IF cfg.LLM_FORWARD_ENABLED THEN "llm_node"
    ELSE "END"

\* graph.py lines 51-55: the edge leaving toon_converter.
route_after_toon(cfg) == IF cfg.LLM_FORWARD_ENABLED THEN "llm_node" ELSE "END"

\* toon_converter.py: to_toon of a prompt that is not JSON is data.strip().
to_toon(text) == text

CHARS_PER_TOKEN == 4

\* ToonConverter.convert_with_metrics: the string and tokens_saved.
convert_with_metrics(text) ==
    LET toon == to_toon(text)
    IN  [toon_str |-> toon,
         tokens_saved |-> Max2(0, (CharLen(text) \div CHARS_PER_TOKEN)
                                  - (CharLen(toon) \div CHARS_PER_TOKEN))]

\* toon_conversion_node (lines 192-248).
toon_conversion_node(state, prompt) ==
    LET clean_input == OrElse(state.redacted_input, state.sanitized_input, None, prompt)
        conv == convert_with_metrics(clean_input)
    IN  IF clean_input = <<>>
        THEN [state EXCEPT !.toon_query = None, !.token_savings = 0]
        ELSE [state EXCEPT !.toon_query = Some(conv.toon_str),
                           !.token_savings = conv.tokens_saved]

\* llm_responder.py get_model_name (lines 30-46).
LLM_MODEL_NAME == "gemini-2.0-flash-exp"
SupportedModels == {"gemini-3-pro-preview", "gemini-3-flash-preview"}
get_model_name(requested) ==
    IF requested = "" THEN LLM_MODEL_NAME
    ELSE IF requested = "default" THEN "gemini-3-flash-preview"
    ELSE IF requested \in SupportedModels THEN requested
    ELSE LLM_MODEL_NAME

\* The query the model stage sends (parallel_llm.py 41-46, llm_responder.py 146-151).
ModelQuery(state, prompt) ==
    OrElse(state.toon_query, state.redacted_input, state.sanitized_input, prompt)

\* A faulty count that takes the provider's figure even when it is 0.
TokenCountReportedOnly(reported, text) == reported

\* Token usage (parallel_llm.py 111-121): the provider's count when non-zero,
\* else len(text) // 4.
TokenCount(reported, text) == IF reported # 0 THEN reported ELSE CharLen(text) \div 4

TokensUsed(input, output) == [input |-> input, output |-> output, total |-> input + output]

AuditBlockThreshold == 700

\* A faulty test that also blocks at a confidence of exactly 0.7.
AuditBlocksAtThreshold(audit) == audit.is_threat /\ audit.confidence >= AuditBlockThreshold

\* parallel_llm.py line 232.
AuditBlocks(audit) == audit.is_threat /\ audit.confidence > AuditBlockThreshold

\* parallel_llm.py lines 239-246: the block the security audit causes.
AuditBlockUpdate(state, audit, model_name) ==
    [state EXCEPT
        !.is_blocked = TRUE,
        !.block_reason = Some(<<"LLM security: ", audit.threat_type, " (confidence: ">>
                              \o Fmt2(audit.confidence) \o <<")">>),
        !.llm_response = None,
        !.model_used = Some(model_name),
        !.security_llm_check = Some(audit)]

\* parallel_llm.py 297-305, llm_responder.py 247-254: Guardian blocked the output.
GuardianBlockUpdate(state, reason, model_name) ==
    [state EXCEPT
        !.is_blocked = TRUE,
        !.block_reason = Some(<<"Output blocked: ">> \o reason),
        !.llm_response = None,
        !.model_used = Some(model_name)]

\* parallel_llm.py 307-325, llm_responder.py 256-275: restore the PII tokens in
\* the validated response and return it with the token usage.
RestoredResponse(validated, mapping) ==
    IF mapping # <<>> /\ Truthy(validated)
    THEN Some(depseudonymize(Get(validated), mapping))
    ELSE validated

PassUpdate(state, validated, tokens, model_name) ==
    [state EXCEPT
        !.llm_response = RestoredResponse(validated, state.pii_mapping),
        !.llm_tokens_used = Some(tokens),
        !.model_used = Some(model_name)]

\* guardian_result.get("metrics", {}).get(key) (parallel_llm.py 326-340).
GuardianMetric(guardian_result, key) ==
    IF key \in DOMAIN guardian_result.metrics
    THEN Some(guardian_result.metrics[key]) ELSE None

\* The Guardian results the node returns for main.py to report: taken from the
\* answer's `metrics` by parallel_llm_node (lines 326-340); kept under the key
\* guardian_validation, which main.py does not read, by llm_responder_node
\* (lines 277-285).
GuardianMetricsUpdate(state, guardian_result, llm) ==
    IF llm = "parallel_llm"
    THEN [state EXCEPT
             !.disclaimer_injected = GuardianMetric(guardian_result, "disclaimer_injected"),
             !.toxicity_score = GuardianMetric(guardian_result, "toxicity_score")]
    ELSE state

\* The except branches (parallel_llm.py 343-349, llm_responder.py 287-294).
LlmErrorUpdate(state) ==
    [state EXCEPT !.llm_response = None, !.error = TRUE]


\* ---------------------------------------------------- Sentinel: main.py chat

\* The ChatResponse built from the graph's result (main.py 152-168).
ChatResponse(result) ==
    [is_blocked |-> result.is_blocked,
     block_reason |-> result.block_reason,
     llm_response |-> result.llm_response,
     metrics |-> [security_score |-> result.security_score,
                  tokens_saved |-> result.token_savings,
                  llm_tokens |-> result.llm_tokens_used,
                  model_used |-> result.model_used,
                  threats_detected |-> Len(result.detected_threats),
                  pii_redacted |-> Len(result.pii_detections),
                  guardian_metrics |->
                      [disclaimer_injected |-> result.disclaimer_injected,
                       toxicity_score |-> result.toxicity_score]]]

\* ------------------------------------------------------- Gateway: deps.py

\* hashlib.sha256(api_key.encode()).hexdigest()
Hash(k) == <<"sha256", k>>

\* A faulty order of the checks: the bound application before is_active.
get_api_key_app_first(header, table) ==
    IF header = None \/ Get(header) = "" THEN 401
    ELSE IF Hash(Get(header)) \notin DOMAIN table THEN 401
    ELSE IF table[Hash(Get(header))].application = None THEN 401
    ELSE IF ~table[Hash(Get(header))].is_active THEN 403
    ELSE 0

\* get_api_key (lines 17-61): the status it raises, 0 when it returns the key.
get_api_key(header, table) ==
    IF header = None \/ Get(header) = "" THEN 401
    ELSE IF Hash(Get(header)) \notin DOMAIN table THEN 401
    ELSE IF ~table[Hash(Get(header))].is_active THEN 403
    ELSE IF table[Hash(Get(header))].application = None THEN 401
    ELSE 0

\* ------------------------------------------------------- Gateway: chat.py

\* sentinel_result.get("block_reason", ""): None fields are left out of
\* Sentinel's JSON (response_model_exclude_none).
BlockReasonOf(sentinel_result) ==
    IF sentinel_result.block_reason = None THEN <<>> ELSE Get(sentinel_result.block_reason)

\* Faulty headers: the decision does not follow the verdict.
SecurityHeadersAlwaysPassed(sentinel_result) ==
    [score |-> Fmt3(sentinel_result.metrics.security_score), decision |-> <<"passed">>]

\* Lines 137-140.
SecurityHeaders(sentinel_result) ==
    [score |-> Fmt3(sentinel_result.metrics.security_score),
     decision |-> IF sentinel_result.is_blocked
                  THEN <<"blocked: ">> \o BlockReasonOf(sentinel_result)
                  ELSE <<"passed">>]

\* A faulty blocked response that hands the reply's llm_response on.
BlockedResponseWithCompletion(sentinel_result) ==
    [status |-> 400,
     headers |-> Some(SecurityHeaders(sentinel_result)),
     body |-> [detail |-> [error |-> <<"Request blocked">>,
                           reason |-> BlockReasonOf(sentinel_result)],
               response |-> sentinel_result.llm_response]]

\* Lines 147-171: the HTTPException of a blocked request.
BlockedResponse(sentinel_result) ==
    [status |-> 400,
     headers |-> Some(SecurityHeaders(sentinel_result)),
     body |-> [detail |-> [error |-> <<"Request blocked">>,
                           reason |-> BlockReasonOf(sentinel_result)]]]

\* Lines 182-189: token usage, when Sentinel reported it.
TokenUsage(sentinel_result) ==
    IF sentinel_result.metrics.llm_tokens = None THEN None
    ELSE LET t == Get(sentinel_result.metrics.llm_tokens)
         IN  Some([input_tokens |-> t.input, output_tokens |-> t.output,
                   total_tokens |-> t.total])

\* Lines 195-210.
ResponseMetrics(sentinel_result) ==
    [security_score |-> sentinel_result.metrics.security_score,
     tokens_saved |-> sentinel_result.metrics.tokens_saved,
     token_usage |-> TokenUsage(sentinel_result),
     model_used |-> sentinel_result.metrics.model_used,
     threats_detected |-> sentinel_result.metrics.threats_detected,
     pii_redacted |-> sentinel_result.metrics.pii_redacted,
     disclaimer_injected |-> sentinel_result.metrics.guardian_metrics.disclaimer_injected,
     toxicity_score |-> sentinel_result.metrics.guardian_metrics.toxicity_score]

\* Lines 312-316.
PassedResponse(sentinel_result, app) ==
    [status |-> 200,
     headers |-> Some(SecurityHeaders(sentinel_result)),
     body |-> [response |-> sentinel_result.llm_response,
               app |-> app,
               metrics |-> ResponseMetrics(sentinel_result)]]

ZeroUsage == [input_tokens |-> 0, output_tokens |-> 0]

\* Lines 215-238 on the ApiKey object the handler holds: last_used_at,
\* request_count += 1 and usage_data[model_used] += tokens.
Account(api_key, metrics, body_model) ==
    LET model_used == IF metrics.model_used # None THEN Get(metrics.model_used)
                      ELSE body_model
        input == IF metrics.token_usage # None THEN Get(metrics.token_usage).input_tokens ELSE 0
        output == IF metrics.token_usage # None THEN Get(metrics.token_usage).output_tokens ELSE 0
        usage == api_key.usage_data
        cur == IF model_used \in DOMAIN usage THEN usage[model_used] ELSE ZeroUsage
    IN  [api_key EXCEPT
            !.last_used_at = Some("now()"),
            !.request_count = @ + 1,
            !.usage_data = [m \in DOMAIN usage \cup {model_used} |->
                               IF m = model_used
                               THEN [input_tokens |-> cur.input_tokens + input,
                                     output_tokens |-> cur.output_tokens + output]
                               ELSE usage[m]]]


\* ------------------------------------------------ Sentinel: call_guardian

\* guardrails of a /validate request (schemas/validation.py line 13): the keys
\* the nodes read; an absent toxicity_threshold or brand_tone is None.
NoGuardrails ==
    [hallucination_check |-> FALSE, citation_verification |-> FALSE,
     false_refusal_check |-> FALSE, auto_disclaimers |-> FALSE,
     brand_tone |-> None, toxicity_threshold |-> None]

\* The JSON body call_guardian posts to Guardian's /validate
\* (llm_responder.py 105-126) with the arguments the model stage passes:
\* guardrails = input_data.get("guardrails", {}) is always empty, original_query
\* is input_data["prompt"], the prompt as the caller sent it, and the flags come
\* from the GuardianConfig main.py builds from the request's settings.
GuardianRequest(response_text, request) ==
    [llm_response |-> response_text,
     moderation_mode |-> "moderate",
     output_format |-> "json",
     guardrails |-> NoGuardrails,
     original_query |-> request.query,
     config |-> [enable_content_filter |-> request.settings.content_filter,
                 enable_hallucination_detector |-> request.settings.hallucination_check,
                 enable_tone_checker |-> FALSE]]

\* call_guardian's except branch (llm_responder.py 128-130).
GuardianFallback(response_text) ==
    [validated_response |-> Some(response_text), content_blocked |-> FALSE,
     content_block_reason |-> <<>>, disclaimer_injected |-> None,
     toxicity_score |-> None, metrics |-> <<>>,
     judge_calls |-> <<>>, judge_answers |-> <<>>]

\* ------------------------------------------------------ Guardian: /validate

HarmfulPhrases == {"kill someone"}
InappropriatePhrases == {"explicit"}
SensitivePhrases == {"political"}
HarmfulConfidence == 800
InappropriateConfidence == 700
SensitiveConfidence == 600
ToxicityThreshold == 700

\* The categories in the order pattern_based_filter builds its result.
Categories == <<"harmful", "inappropriate", "sensitive">>

CategoryPhrases(category) ==
    CASE category = "harmful" -> HarmfulPhrases
      [] category = "inappropriate" -> InappropriatePhrases
      [] OTHER -> SensitivePhrases

CategoryConfidence(category) ==
    CASE category = "harmful" -> HarmfulConfidence
      [] category = "inappropriate" -> InappropriateConfidence
      [] OTHER -> SensitiveConfidence

\* A faulty table in which mode moderate blocks what it should warn about.
ModerateBlocksInappropriate(mode, category) ==
    CASE mode = "strict" -> "block"
      [] mode = "relaxed" -> IF category = "harmful" THEN "block" ELSE "allow"
      [] mode = "raw" -> "allow"
      [] OTHER -> IF category = "sensitive" THEN "allow" ELSE "block"

\* MODERATION_RULES.get(mode, MODERATION_RULES["moderate"]).get(category)
\* (content_filter.py 24-29, 139, 180).
MODERATION_RULES(mode, category) ==
    CASE mode = "strict" -> "block"
      [] mode = "relaxed" -> IF category = "harmful" THEN "block" ELSE "allow"
      [] mode = "raw" -> "allow"
      [] OTHER -> CASE category = "harmful" -> "block"
                    [] category = "inappropriate" -> "warn"
                    [] OTHER -> "allow"

\* pattern_based_filter (content_filter.py 86-115).
pattern_based_filter(text) ==
    [c \in Range(Categories) |->
        LET detected == \E i \in 1..Len(text) : text[i] \in CategoryPhrases(c)
        IN  [detected |-> detected,
             confidence |-> IF detected THEN CategoryConfidence(c) ELSE 0]]

AnyDetected(pattern_results) ==
    \E c \in Range(Categories) : pattern_results[c].detected

\* max(d["confidence"] for d in pattern_results.values()) (lines 169-171).
MaxPatternConfidence(pattern_results) ==
    Max2(pattern_results["harmful"].confidence,
         Max2(pattern_results["inappropriate"].confidence,
              pattern_results["sensitive"].confidence))

\* What a toxicity judge call can do: fail (the call raises, or its answer is
\* not JSON), answer JSON that is not an object, or answer a score.
ToxicityOutcomes ==
    {[kind |-> "failed", toxicity_score |-> 0],
     [kind |-> "not_object", toxicity_score |-> 0],
     [kind |-> "scored", toxicity_score |-> 200],
     [kind |-> "scored", toxicity_score |-> 600],
     [kind |-> "scored", toxicity_score |-> 900]}

\* guardrails.get("toxicity_threshold", 0.7) (content_filter.py 153-154).
ToxicityThresholdOf(guardrails) ==
    IF guardrails.toxicity_threshold = None THEN ToxicityThreshold
    ELSE Get(guardrails.toxicity_threshold)

\* str() of the threshold inside the f-string of line 193.
FmtThreshold(guardrails) ==
    LET t == ToxicityThresholdOf(guardrails)
    IN  IF t = 0 THEN <<"0">>
        ELSE IF t = 1000 THEN <<"1">>
        ELSE <<"0", ".", Digit(t \div 100)>>

RECURSIVE JoinIssues(_)
\* "; ".join(content_issues)
JoinIssues(issues) ==
    IF issues = <<>> THEN <<>>
    ELSE IF Len(issues) = 1 THEN issues[1]
    ELSE issues[1] \o <<"; ">> \o JoinIssues(Tail(issues))

\* The toxicity score content_filter_node works with (lines 157-172):
\* llm_toxicity_scoring answers 0.0 when its call fails (lines 247-249); an
\* answer without .get() raises into the except branch of line 166, the max
\* pattern confidence.
ToxicityScore(pattern_results, tox) ==
    IF ~AnyDetected(pattern_results) THEN 0
    ELSE IF tox.kind = "not_object" THEN MaxPatternConfidence(pattern_results)
    ELSE tox.toxicity_score

\* content_filter_node calls the toxicity judge (lines 141, 160-163).
ToxicityScoringCalled(state) ==
    /\ state.llm_response # <<>>
    /\ state.moderation_mode # "raw"
    /\ AnyDetected(pattern_based_filter(state.llm_response))

\* content_filter_node (content_filter.py 130-216), tox being what the
\* toxicity judge does if it is called.
content_filter_node(state, tox) ==
    LET rules(c) == MODERATION_RULES(state.moderation_mode, c)
        pattern_results == pattern_based_filter(state.llm_response)
        toxicity_threshold == ToxicityThresholdOf(state.guardrails)
        toxicity_score == ToxicityScore(pattern_results, tox)
        Issue(c) == IF pattern_results[c].detected /\ rules(c) = "block"
                    THEN <<<<c, ": blocked">>>> ELSE <<>>
        Warning(c) == IF pattern_results[c].detected /\ rules(c) = "warn"
                      THEN <<<<c, ": flagged for review">>>> ELSE <<>>
        content_issues ==
            Issue("harmful") \o Issue("inappropriate") \o Issue("sensitive")
            \o (IF toxicity_score >= toxicity_threshold
                THEN <<<<"toxicity score ">> \o Fmt2(toxicity_score)
                       \o <<" exceeds threshold ">> \o FmtThreshold(state.guardrails)>>
                ELSE <<>>)
        warnings == Warning("harmful") \o Warning("inappropriate") \o Warning("sensitive")
        blocked == content_issues # <<>>
    IN  IF state.llm_response = <<>> \/ state.moderation_mode = "raw"
        THEN [state EXCEPT !.content_filtered = FALSE,
                           !.content_warnings = <<>>,
                           !.content_blocked = FALSE]
        ELSE [state EXCEPT
                 !.content_filtered = blocked \/ warnings # <<>>,
                 !.content_warnings = warnings,
                 !.content_blocked = blocked,
                 !.content_block_reason = IF blocked THEN Some(JoinIssues(content_issues))
                                          ELSE None,
                 !.toxicity_score = IF toxicity_score > 0 THEN Some(toxicity_score)
                                    ELSE None]

\* A faulty routing that goes on to pii_scanner after a block.
route_after_filter_ignoring_block(state) == "pii_scanner"

\* graph.py route_after_filter (lines 46-49).
route_after_filter(state) == IF state.content_blocked THEN "END" ELSE "pii_scanner"

\* main.py lines 61-77: the initial GuardianState of a /validate request.
\* state["request"] is read by parallel_llm_validator_node only; the handler
\* of section 4.3 stores the request there, main.py of src/ does not.
GuardianInitialState(request, judges) ==
    [llm_response |-> request.llm_response,
     moderation_mode |-> request.moderation_mode,
     output_format |-> request.output_format,
     guardrails |-> request.guardrails,
     original_query |-> request.original_query,
     request |-> IF judges = "parallel_validator" THEN Some(request.config) ELSE None,
     content_filtered |-> FALSE, content_warnings |-> <<>>,
     content_blocked |-> FALSE, content_block_reason |-> None,
     output_pii_leaks |-> <<>>, output_redacted |-> FALSE, was_toon |-> FALSE,
     hallucination_detected |-> None, citations_verified |-> None,
     tone_compliant |-> None, disclaimer_injected |-> None, disclaimer_text |-> None,
     false_refusal_detected |-> None, toxicity_score |-> None]

\* A literal IP_ADDRESS_PATTERN matches (pii_scanner.py line 28).
IpLiterals == {"10.0.0.1"}

\* OutputPIIScanner.redact, applied by pii_scanner_node when a high-severity
\* leak (an SSN) is in the response (pii_scanner.py 66-78, 99-106): the SSN
\* and e-mail substitutions; it has none for IP addresses.
RedactAtom(a) ==
    CASE a \in SsnLiterals -> "[SSN_REDACTED]"
      [] a \in EmailLiterals -> "[EMAIL_REDACTED]"
      [] OTHER -> a

pii_scanner_node(llm_response) ==
    IF \E i \in 1..Len(llm_response) : llm_response[i] \in SsnLiterals
    THEN MapSeq(llm_response, RedactAtom)
    ELSE llm_response

\* OutputPIIScanner.scan (pii_scanner.py 31-64): the leak types found.
OutputPIIScan(text) ==
    (IF \E i \in 1..Len(text) : text[i] \in SsnLiterals
     THEN <<[type |-> "SSN", severity |-> "high"]>> ELSE <<>>)
    \o (IF \E i \in 1..Len(text) : text[i] \in EmailLiterals
        THEN <<[type |-> "EMAIL", severity |-> "medium"]>> ELSE <<>>)
    \o (IF \E i \in 1..Len(text) : text[i] \in IpLiterals
        THEN <<[type |-> "IP_ADDRESS", severity |-> "low"]>> ELSE <<>>)

\* pii_scanner_node on the state (pii_scanner.py 82-125).
PiiScannerUpdate(state) ==
    [state EXCEPT !.llm_response = pii_scanner_node(state.llm_response),
                  !.output_pii_leaks = OutputPIIScan(state.llm_response),
                  !.output_redacted =
                      \E i \in 1..Len(OutputPIIScan(state.llm_response)) :
                          OutputPIIScan(state.llm_response)[i].severity = "high"]

\* ToonDecoder.is_toon / decode / to_json_string on the one TOON text of the
\* model, {m:~} (toon_decoder.py 38-115).
ToonText == <<"{m:~}">>
DecodedToon == <<"{", "message", ": null", "}">>

\* toon_decoder_node (toon_decoder.py 118-154).
toon_decoder_node(state) ==
    IF state.llm_response = <<>> THEN state
    ELSE LET is_toon == state.llm_response = ToonText
         IN  [state EXCEPT
                 !.llm_response = IF is_toon /\ state.output_format = "json"
                                  THEN DecodedToon ELSE state.llm_response,
                 !.was_toon = is_toon]

\* What a hallucination or tone judge call can do: fail, or answer a verdict.
JudgeOutcomes ==
    {[kind |-> "failed", verdict |-> FALSE],
     [kind |-> "answered", verdict |-> TRUE],
     [kind |-> "answered", verdict |-> FALSE]}

\* hallucination_detector_node calls its judge (lines 77-88).
HallucinationDetectorCalls(state) ==
    /\ state.guardrails.hallucination_check
    /\ state.original_query # <<>>
    /\ state.llm_response # <<>>

\* hallucination_detector_node after the call (lines 90-120).
hallucination_detector_node(state, outcome) ==
    IF outcome.kind = "failed" THEN state
    ELSE [state EXCEPT !.hallucination_detected = Some(outcome.verdict)]

\* citation_verifier_node (citation_verifier.py 82-122): a vague claim with
\* no citation beside it is flagged.
citation_verifier_node(state) ==
    IF ~state.guardrails.citation_verification \/ state.llm_response = <<>> THEN state
    ELSE [state EXCEPT !.citations_verified =
             Some(~\E i \in 1..Len(state.llm_response) :
                      state.llm_response[i] = "studies show")]

\* tone_checker_node calls its judge (tone_checker.py 61-72).
ToneCheckerCalls(state) ==
    /\ state.guardrails.brand_tone # None
    /\ state.llm_response # <<>>

\* tone_checker_node after the call (lines 74-103); verdict is tone_compliant.
tone_checker_node(state, outcome) ==
    IF outcome.kind = "failed" THEN state
    ELSE [state EXCEPT !.tone_compliant = Some(outcome.verdict)]

\* refusal_detector_node (refusal_detector.py 39-82).
refusal_detector_node(state) ==
    IF ~state.guardrails.false_refusal_check \/ state.llm_response = <<>> THEN state
    ELSE [state EXCEPT !.false_refusal_detected =
             Some(\E i \in 1..Len(state.llm_response) : state.llm_response[i] = "I cannot")]

\* DisclaimerInjector.detect_advice_type (disclaimer_injector.py 76-92): the
\* medical keywords each atom contains; two distinct keywords make it advice.
MedicalKeywordsIn(a) ==
    CASE a = "diagnosis" -> {"diagnos"}
      [] a = "symptoms" -> {"symptom"}
      [] OTHER -> {}

detect_advice_type(text) ==
    IF Cardinality(UNION {MedicalKeywordsIn(text[i]) : i \in 1..Len(text)}) >= 2
    THEN Some("medical") ELSE None

\* disclaimer_injector_node (disclaimer_injector.py 107-155).
disclaimer_injector_node(state) ==
    IF ~state.guardrails.auto_disclaimers \/ state.llm_response = <<>> THEN state
    ELSE IF detect_advice_type(state.llm_response) # None
    THEN [state EXCEPT !.llm_response = Append(state.llm_response, "MEDICAL_DISCLAIMER"),
                       !.disclaimer_injected = Some(TRUE),
                       !.disclaimer_text = detect_advice_type(state.llm_response)]
    ELSE [state EXCEPT !.disclaimer_injected = Some(FALSE)]

\* The judge calls parallel_llm_validator_node starts (lines 181-219): each
\* run_*_check awaits its judge only when the request's config enables it.
ParallelChecksEnabled(state) ==
    IF state.llm_response = <<>> \/ state.request = None THEN {}
    ELSE LET config == Get(state.request)
         IN  (IF config.enable_content_filter THEN {"toxicity"} ELSE {})
             \cup (IF config.enable_hallucination_detector /\ state.original_query # <<>>
                   THEN {"hallucination"} ELSE {})
             \cup (IF config.enable_tone_checker THEN {"tone"} ELSE {})

\* The merge of the toxicity result (lines 257-270); a failed toxicity_check
\* answers the score 0.0 (lines 123-125).
ToxicityMerge(state, outcome) ==
    LET toxicity_score == outcome.toxicity_score
        blocks == toxicity_score >= ToxicityThresholdOf(state.guardrails)
    IN  [state EXCEPT
            !.toxicity_score = Some(toxicity_score),
            !.content_blocked = IF blocks THEN TRUE ELSE @,
            !.content_block_reason =
                IF blocks
                THEN Some(<<"Toxicity score ">> \o Fmt2(toxicity_score)
                          \o <<" exceeds threshold ">> \o FmtThreshold(state.guardrails))
                ELSE @]

\* Lines 272-276; a failed hallucination_check answers False (lines 137-146).
HallucinationMerge(state, outcome) ==
    [state EXCEPT !.hallucination_detected =
                      Some(IF outcome.kind = "failed" THEN FALSE ELSE outcome.verdict)]

\* Lines 278-282; a failed tone_check answers True (lines 158-167).
ToneMerge(state, outcome) ==
    [state EXCEPT !.tone_compliant =
                      Some(IF outcome.kind = "failed" THEN TRUE ELSE outcome.verdict)]

\* check_result.get on a toxicity answer that is not an object raises in the
\* merge loop, outside any try (line 258).
ParallelMergeRaises(tasks_) ==
    /\ tasks_["toxicity"].status = "returned"
    /\ Get(tasks_["toxicity"].outcome).kind = "not_object"

\* parallel_llm_validator_node after asyncio.gather (lines 243-284), tasks_
\* being the judge calls with what each returned.
parallel_llm_validator_node(state, tasks_) ==
    LET s1 == IF tasks_["toxicity"].status = "returned"
              THEN ToxicityMerge(state, Get(tasks_["toxicity"].outcome)) ELSE state
        s2 == IF tasks_["hallucination"].status = "returned"
              THEN HallucinationMerge(s1, Get(tasks_["hallucination"].outcome)) ELSE s1
    IN  IF tasks_["tone"].status = "returned"
        THEN ToneMerge(s2, Get(tasks_["tone"].outcome)) ELSE s2

\* The ValidateResponse of the /validate handler (main.py 92-134).
ValidateResponse(result) ==
    [status |-> 200,
     validated_response |-> IF ~result.content_blocked THEN Some(result.llm_response)
                            ELSE None,
     validation_passed |-> ~result.content_blocked,
     content_blocked |-> result.content_blocked,
     content_block_reason |-> result.content_block_reason,
     content_warnings |-> result.content_warnings,
     output_redacted |-> result.output_redacted,
     was_toon |-> result.was_toon,
     hallucination_detected |-> result.hallucination_detected,
     citations_verified |-> result.citations_verified,
     tone_compliant |-> result.tone_compliant,
     disclaimer_injected |-> result.disclaimer_injected,
     false_refusal_detected |-> result.false_refusal_detected,
     toxicity_score |-> result.toxicity_score]

\* The hallucination judge. hallucination_detector_node (lines 78-96) runs it
\* when guardrails.hallucination_check is set; run_hallucination_check of
\* parallel_llm_validator_node (lines 188-197) when the request's config has
\* enable_hallucination_detector. Both send it the original query and the
\* response.
HallucinationJudgeRuns(state, judges) ==
    IF judges = "nodes" THEN HallucinationDetectorCalls(state)
    ELSE "hallucination" \in ParallelChecksEnabled(state)

\* The JSON of a ValidateResponse as Sentinel reads it: the fields its model
\* stage uses, and `metrics` with the keys main.py 129-133 gives it.
ValidateAnswer(result, judge_calls, judge_answers) ==
    LET r == ValidateResponse(result)
    IN  [validated_response |-> r.validated_response,
         content_blocked |-> r.content_blocked,
         content_block_reason |-> IF r.content_block_reason = None THEN <<>>
                                  ELSE Get(r.content_block_reason),
         disclaimer_injected |-> r.disclaimer_injected,
         toxicity_score |-> r.toxicity_score,
         metrics |-> [moderation_mode |-> result.moderation_mode,
                      warnings_count |-> Len(result.content_warnings),
                      pii_leaks_count |-> Len(result.output_pii_leaks)],
         judge_calls |-> judge_calls,
         judge_answers |-> judge_answers]

\* The /validate handler for a request of Sentinel (main.py 43-134): the graph
\* content_filter -> (blocked: END) -> pii_scanner -> toon_decoder -> judges ->
\* citation_verifier -> refusal_detector -> disclaimer_injector, with the judge
\* calls it makes and what they answered: tox for llm_toxicity_scoring of
\* content_filter_node, par for toxicity_check of parallel_llm_validator_node.
\* The hallucination and tone verdicts change neither the text nor the block
\* and are left out. A toxicity answer that makes parallel_llm_validator_node
\* raise ends in a 500, which call_guardian turns into its fallback.
Validate(request, judges, tox, par) ==
    LET s0 == GuardianInitialState(request, judges)
        s1 == content_filter_node(s0, tox)
        s2 == toon_decoder_node(PiiScannerUpdate(s1))
        scoring == ToxicityScoringCalled(s0)
        parallel == judges = "parallel_validator" /\ "toxicity" \in ParallelChecksEnabled(s2)
        s3 == IF parallel THEN ToxicityMerge(s2, par) ELSE s2
        s4 == disclaimer_injector_node(refusal_detector_node(citation_verifier_node(s3)))
        scoring_call == IF scoring THEN <<<<"toxicity_judge", s0.llm_response>>>> ELSE <<>>
        scoring_answer == IF scoring THEN <<tox>> ELSE <<>>
    IN  IF route_after_filter(s1) = "END"
        THEN ValidateAnswer(s1, scoring_call, scoring_answer)
        ELSE IF parallel /\ par.kind = "not_object"
        THEN GuardianFallback(request.llm_response)
        ELSE ValidateAnswer(
                 s4,
                 scoring_call
                 \o (IF parallel THEN <<<<"toxicity_judge", s2.llm_response>>>> ELSE <<>>)
                 \o (IF HallucinationJudgeRuns(s2, judges)
                     THEN <<<<"hallucination_judge", s2.original_query \o s2.llm_response>>>>
                     ELSE <<>>),
                 scoring_answer \o (IF parallel THEN <<par>> ELSE <<>>))


\* ------------------------------------------------------- the environment

\* core/config.py: the defaults, and deployments with one feature switched off.
DefaultSettings ==
    [SECURITY_SANITIZATION_ENABLED |-> TRUE,
     SECURITY_PII_REDACTION_ENABLED |-> TRUE,
     SECURITY_XSS_PROTECTION_ENABLED |-> TRUE,
     SECURITY_SQL_INJECTION_DETECTION_ENABLED |-> TRUE,
     SECURITY_COMMAND_INJECTION_DETECTION_ENABLED |-> TRUE,
     TOON_CONVERSION_ENABLED |-> TRUE,
     LLM_FORWARD_ENABLED |-> TRUE]

ServiceSettings ==
    {DefaultSettings,
     [DefaultSettings EXCEPT !.SECURITY_SANITIZATION_ENABLED = FALSE],
     [DefaultSettings EXCEPT !.SECURITY_PII_REDACTION_ENABLED = FALSE],
     [DefaultSettings EXCEPT !.SECURITY_XSS_PROTECTION_ENABLED = FALSE,
                             !.SECURITY_SQL_INJECTION_DETECTION_ENABLED = FALSE,
                             !.SECURITY_COMMAND_INJECTION_DETECTION_ENABLED = FALSE],
     [DefaultSettings EXCEPT !.TOON_CONVERSION_ENABLED = FALSE],
     [DefaultSettings EXCEPT !.LLM_FORWARD_ENABLED = FALSE],
     [DefaultSettings EXCEPT !.TOON_CONVERSION_ENABLED = FALSE,
                             !.LLM_FORWARD_ENABLED = FALSE]}

\* The model stage is llm_responder_node (graph.py line 26) or parallel_llm_node;
\* Guardian's judge calls are gated per node by `guardrails` (graph.py of
\* Guardian) or by the request's config (parallel_llm_validator_node).
LlmNodes == {"llm_responder", "parallel_llm"}

\* Guardian's pipeline: the graph of sequential nodes (agents/graph.py), or the
\* pipeline of section 4.3 whose judges run in parallel_llm_validator_node,
\* gated by the flags of the request's config.
JudgeWirings == {"nodes", "parallel_validator"}

Wirings == [llm : LlmNodes, judges : JudgeWirings]

\* Prompts: empty, clean, with PII, with a token-shaped word, with attack
\* fragments below and above the blocking confidence, with a word of the
\* inappropriate category of Guardian, with two medical keywords.
Prompts ==
    {<<>>,
     <<"hello">>,
     <<"123-45-6789", "hello", "j@x.com">>,
     <<"[SSN_1]", "123-45-6789">>,
     <<"--">>,
     <<"--", "--", "--">>,
     <<"../", "../">>,
     <<"--", "--", "--", "../">>,
     <<"'", "'">>,
     <<"explicit">>,
     <<"diagnosis", "symptoms">>}

\* The X-API-Key header: absent, empty, unknown, or one of the stored keys.
HeaderKeys == {None, Some(""), Some("k-unknown"), Some("k-active"), Some("k-disabled"),
               Some("k-orphan"), Some("k-disabled-orphan")}

KeyRow(active, app) ==
    [is_active |-> active, application |-> app, request_count |-> 0,
     usage_data |-> <<>>, last_used_at |-> None]

\* The api_keys table (models/api_key.py), with each key's application loaded.
InitialTable ==
    (Hash("k-active") :> KeyRow(TRUE, Some("my-app")))
    @@ (Hash("k-disabled") :> KeyRow(FALSE, Some("my-app")))
    @@ (Hash("k-orphan") :> KeyRow(TRUE, None))
    @@ (Hash("k-disabled-orphan") :> KeyRow(FALSE, None))

\* settings of the request body (schemas/security.py SecuritySettings).
\* detect_threats, content_filter, auto_disclaimers and toxicity_threshold are
\* off in all combinations of the other three, and on together in two more.
RequestSettings ==
    {[pii_masking |-> p, enable_llm_forward |-> f, hallucination_check |-> h,
      detect_threats |-> FALSE, content_filter |-> FALSE, auto_disclaimers |-> FALSE,
      toxicity_threshold |-> None] : p \in BOOLEAN, f \in BOOLEAN, h \in BOOLEAN}
    \cup {[pii_masking |-> p, enable_llm_forward |-> TRUE, hallucination_check |-> FALSE,
           detect_threats |-> TRUE, content_filter |-> TRUE, auto_disclaimers |-> TRUE,
           toxicity_threshold |-> Some(500)] : p \in BOOLEAN}

Requests ==
    [api_key : HeaderKeys, query : Prompts, model : {"gemini-3-flash-preview"},
     settings : RequestSettings]

\* What the step-4 security chain can answer (security.py 286-288).
LlmVerdicts ==
    {[security_score |-> 100, is_blocked |-> FALSE, reason |-> None],
     [security_score |-> 900, is_blocked |-> FALSE, reason |-> None],
     [security_score |-> 100, is_blocked |-> TRUE, reason |-> Some(<<"Prompt injection">>)],
     [security_score |-> 100, is_blocked |-> TRUE, reason |-> None]}

\* What the provider can answer to the generation call: the text and the usage
\* it reports (0 when it reports none). The text is a function of the query.
Completions(query) ==
    {[text |-> query, prompt_token_count |-> 12, candidates_token_count |-> 5],
     [text |-> <<"fine">>, prompt_token_count |-> 0, candidates_token_count |-> 0],
     [text |-> <<"kill someone">>, prompt_token_count |-> 12, candidates_token_count |-> 5]}

\* The JSON objects the security audit can answer (parallel_llm.py 145-151).
AuditResults ==
    {[is_threat |-> FALSE, threat_type |-> "none", confidence |-> 0, reasoning |-> "ok"],
     [is_threat |-> FALSE, threat_type |-> "none", confidence |-> 900, reasoning |-> "ok"],
     [is_threat |-> TRUE, threat_type |-> "sql_injection", confidence |-> 700,
      reasoning |-> "ok"],
     [is_threat |-> TRUE, threat_type |-> "sql_injection", confidence |-> 900,
      reasoning |-> "ok"]}

\* The audit model's reply: text that is not JSON, or one of the objects.
AuditReplies == {None} \cup {Some(a) : a \in AuditResults}

\* security_analysis parsing the reply (parallel_llm.py 177-206): the object's
\* fields, or the defaults of the except branch.
security_analysis(audit_reply) ==
    IF audit_reply = None
    THEN [is_threat |-> FALSE, threat_type |-> "none", confidence |-> 0,
          reasoning |-> "Parse error"]
    ELSE Get(audit_reply)

IdleTask == [status |-> "idle", result |-> None]
IdleTasks == [sec |-> None, gen |-> IdleTask, audit |-> IdleTask]
IdleGuardian == [status |-> "idle", request |-> None, result |-> None]
NewHandler == [pc |-> "auth", api_key |-> None, response |-> None, via |-> "none"]

Init ==
    /\ settings \in ServiceSettings
    /\ wiring \in Wirings
    /\ req \in Requests
    /\ db = InitialTable
    /\ gw = NewHandler
    /\ st = InitialState
    /\ spc = "idle"
    /\ tasks = IdleTasks
    /\ calls = <<>>
    /\ grd = IdleGuardian
    /\ reply = None
    /\ stages = <<>>
    /\ handlers = <<>>
    /\ roundtrip = None
    /\ gd = None
    /\ redis = None


\* ------------------------------------------------------- Gateway actions

\* The HTTPException get_api_key raises (deps.py 20-59).
AuthFailure(status) ==
    [status |-> status, headers |-> None, body |-> [detail |-> <<"Invalid API Key">>]]

\* A faulty mapping that answers every failed call with 500.
DispatchErrorStatusAlways500(kind) == 500

\* chat.py 110-125: the status of a failed call to Sentinel. httpx.HTTPError
\* covers connect errors, timeouts and raise_for_status.
DispatchErrorStatus(kind) == IF kind = "http_error" THEN 503 ELSE 500

DispatchFailure(kind) ==
    [status |-> DispatchErrorStatus(kind), headers |-> None,
     body |-> [detail |-> IF kind = "http_error"
                          THEN <<"Sentinel service unavailable">>
                          ELSE <<"Internal server error">>]]

\* A faulty read of the verdict that always takes the default.
IsBlockedDefault(sentinel_result) == FALSE

\* chat.py 128: is_blocked = sentinel_result.get("is_blocked", False)
IsBlocked(sentinel_result) == sentinel_result.is_blocked

\* await db.commit(): the UPDATE writes the attributes the handler set on its
\* ApiKey object.
Commit(table, hash, api_key) ==
    [table EXCEPT ![hash] = [@ EXCEPT !.last_used_at = api_key.last_used_at,
                                      !.request_count = api_key.request_count,
                                      !.usage_data = api_key.usage_data]]

\* deps.get_api_key: raise 401/403, or hand the loaded ApiKey to chat_request.
GatewayAuthenticate ==
    /\ gw.pc = "auth"
    /\ LET status == get_api_key(req.api_key, db)
       IN  gw' = IF status = 0
                 THEN [gw EXCEPT !.pc = "dispatch",
                                 !.api_key = Some(db[Hash(Get(req.api_key))])]
                 ELSE [gw EXCEPT !.pc = "done", !.via = "auth",
                                 !.response = Some(AuthFailure(status))]
    /\ UNCHANGED <<aside, settings, wiring, req, db, st, spc, tasks, calls, grd, reply, stages>>

\* chat_request lines 71-100: post the request to Sentinel and await the reply.
GatewayDispatch ==
    /\ gw.pc = "dispatch"
    /\ gw' = [gw EXCEPT !.pc = "wait"]
    /\ spc' = "security"
    /\ st' = InitialState
    /\ UNCHANGED <<aside, settings, wiring, req, db, tasks, calls, grd, reply, stages>>

\* Lines 110-115: httpx.HTTPError (connect error, timeout, error status).
GatewayHttpError ==
    /\ gw.pc = "wait"
    /\ gw' = [gw EXCEPT !.pc = "done", !.via = "http_error",
                        !.response = Some(DispatchFailure("http_error"))]
    /\ UNCHANGED <<aside, settings, wiring, req, db, st, spc, tasks, calls, grd, reply, stages>>

\* Lines 116-125: any other exception while calling Sentinel.
GatewayOtherError ==
    /\ gw.pc = "wait"
    /\ gw' = [gw EXCEPT !.pc = "done", !.via = "other_error",
                        !.response = Some(DispatchFailure("other_error"))]
    /\ UNCHANGED <<aside, settings, wiring, req, db, st, spc, tasks, calls, grd, reply, stages>>

\* Lines 127-316: translate Sentinel's verdict; a request that is not blocked
\* is accounted on the held ApiKey and committed.
GatewayTranslate ==
    /\ gw.pc = "wait"
    /\ reply # None
    /\ LET sentinel_result == Get(reply)
           api_key == Get(gw.api_key)
           accounted == Account(api_key, ResponseMetrics(sentinel_result), req.model)
       IN  IF IsBlocked(sentinel_result)
           THEN /\ gw' = [gw EXCEPT !.pc = "done", !.via = "reply",
                                    !.response = Some(BlockedResponse(sentinel_result))]
                /\ db' = db
           ELSE /\ gw' = [gw EXCEPT !.pc = "done", !.via = "reply",
                                    !.api_key = Some(accounted),
                                    !.response = Some(PassedResponse(sentinel_result,
                                                                     Get(api_key.application)))]
                /\ db' = Commit(db, Hash(Get(req.api_key)), accounted)
    /\ UNCHANGED <<aside, settings, wiring, req, st, spc, tasks, calls, grd, reply, stages>>

\* ------------------------------------------------------ Sentinel actions

\* security_check up to its first await: the empty-prompt return, the threat
\* block, or the step-4 chain call.
SecurityCheck ==
    /\ spc = "security"
    /\ stages' = Append(stages, "security_agent")
    /\ LET s == SecuritySteps(settings, req.query)
       IN  IF req.query = <<>>
           THEN /\ st' = Merge(st, EmptyInputResult)
                /\ spc' = route_after_security(st', settings)
                /\ UNCHANGED <<tasks, calls>>
           ELSE IF ThreatBlocked(s.result.detected_threats)
           THEN /\ st' = Merge(st, ThreatBlockResult(s.result))
                /\ spc' = route_after_security(st', settings)
                /\ UNCHANGED <<tasks, calls>>
           ELSE /\ tasks' = [tasks EXCEPT !.sec = Some(s)]
                /\ calls' = Append(calls, <<"security_llm", s.user_input>>)
                /\ spc' = "security_llm_wait"
                /\ st' = st
    /\ UNCHANGED <<aside, settings, wiring, req, db, gw, grd, reply>>

\* security_check raising inside its try before any step ran (get_settings).
SecurityCheckRaises ==
    /\ spc = "security"
    /\ req.query # <<>>
    /\ stages' = Append(stages, "security_agent")
    /\ st' = Merge(st, FailSafeResult(InitialResult))
    /\ spc' = route_after_security(st', settings)
    /\ UNCHANGED <<aside, settings, wiring, req, db, gw, tasks, calls, grd, reply>>

\* Step 4 returns (lines 277-323).
SecurityLlmReturns ==
    /\ spc = "security_llm_wait"
    /\ \E llm \in LlmVerdicts :
          st' = Merge(st, LlmCheckResult(Get(tasks.sec).result, llm))
    /\ spc' = route_after_security(st', settings)
    /\ UNCHANGED <<aside, settings, wiring, req, db, gw, tasks, calls, grd, reply, stages>>

\* Step 4 raises: the except branch.
SecurityLlmRaises ==
    /\ spc = "security_llm_wait"
    /\ st' = Merge(st, FailSafeResult(Get(tasks.sec).result))
    /\ spc' = route_after_security(st', settings)
    /\ UNCHANGED <<aside, settings, wiring, req, db, gw, tasks, calls, grd, reply, stages>>

ToonConversion ==
    /\ spc = "toon_converter"
    /\ stages' = Append(stages, "toon_converter")
    /\ st' = toon_conversion_node(st, req.query)
    /\ spc' = route_after_toon(settings)
    /\ UNCHANGED <<aside, settings, wiring, req, db, gw, tasks, calls, grd, reply>>


\* ------------------------------------------------- Sentinel: model stage

\* The node returns the state unchanged (parallel_llm.py 37-50,
\* llm_responder.py 137-154): blocked, forwarding not requested, or no query.
\* llm_responder_node reads the flag as request.sentinel_config.enable_llm_forward,
\* the value main.py takes from settings.enable_llm_forward.
NodeReturnsState(state, request, llm) ==
    \/ state.is_blocked
    \/ (llm = "llm_responder" /\ ~request.settings.enable_llm_forward)
    \/ ModelQuery(state, request.query) = <<>>

\* The model calls the node issues: the generation call, and with it the
\* security audit of parallel_llm_node's asyncio.gather.
IssuedCalls(query, llm) ==
    <<<<"generation", query>>>>
    \o (IF llm = "parallel_llm" THEN <<<<"security_audit", query>>>> ELSE <<>>)

RunningTask == [status |-> "running", result |-> None]
DoneTask(r) == [status |-> "done", result |-> Some(r)]

\* The except branch of the node that serves the model stage.
ModelStageError(state, request, llm) ==
    IF llm = "parallel_llm" THEN LlmErrorUpdate(state)
    ELSE [state EXCEPT !.llm_response = None,
                       !.model_used = Some(get_model_name(request.model))]

LlmNodeStart ==
    /\ spc = "llm_node"
    /\ stages' = Append(stages, wiring.llm)
    /\ IF NodeReturnsState(st, req, wiring.llm)
       THEN /\ spc' = "END"
            /\ UNCHANGED <<tasks, calls>>
       ELSE /\ spc' = "fanout"
            /\ calls' = calls \o IssuedCalls(ModelQuery(st, req.query), wiring.llm)
            /\ tasks' = [tasks EXCEPT !.gen = RunningTask,
                                      !.audit = IF wiring.llm = "parallel_llm"
                                                THEN RunningTask ELSE IdleTask]
    /\ UNCHANGED <<aside, settings, wiring, req, db, gw, st, grd, reply>>

\* generate_response returns (parallel_llm.py 71-127, llm_responder.py 160-183).
GenerationReturns ==
    /\ spc = "fanout"
    /\ tasks.gen.status = "running"
    /\ \E c \in Completions(ModelQuery(st, req.query)) :
          tasks' = [tasks EXCEPT !.gen =
                       DoneTask([text |-> c.text,
                                 input_tokens |-> TokenCount(c.prompt_token_count,
                                                             ModelQuery(st, req.query)),
                                 output_tokens |-> TokenCount(c.candidates_token_count,
                                                              c.text)])]
    /\ UNCHANGED <<aside, settings, wiring, req, db, gw, st, spc, calls, grd, reply, stages>>

\* security_analysis returns its parsed answer (parallel_llm.py 129-206).
AuditReturns ==
    /\ spc = "fanout"
    /\ tasks.audit.status = "running"
    /\ \E a \in AuditReplies :
          tasks' = [tasks EXCEPT !.audit = DoneTask(security_analysis(a))]
    /\ UNCHANGED <<aside, settings, wiring, req, db, gw, st, spc, calls, grd, reply, stages>>

\* The generation call raises: the node's except branch.
GenerationRaises ==
    /\ spc = "fanout"
    /\ tasks.gen.status = "running"
    /\ tasks' = [tasks EXCEPT !.gen = [status |-> "raised", result |-> None]]
    /\ st' = ModelStageError(st, req, wiring.llm)
    /\ spc' = "END"
    /\ UNCHANGED <<aside, settings, wiring, req, db, gw, calls, grd, reply, stages>>

\* The audit call raises: asyncio.gather re-raises into the except branch.
AuditRaises ==
    /\ spc = "fanout"
    /\ tasks.audit.status = "running"
    /\ tasks' = [tasks EXCEPT !.audit = [status |-> "raised", result |-> None]]
    /\ st' = ModelStageError(st, req, wiring.llm)
    /\ spc' = "END"
    /\ UNCHANGED <<aside, settings, wiring, req, db, gw, calls, grd, reply, stages>>

\* Both calls are back: the audit verdict (parallel_llm.py 232-246), then the
\* request to Guardian.
FanoutJoin ==
    /\ spc = "fanout"
    /\ tasks.gen.status = "done"
    /\ tasks.audit.status \in {"done", "idle"}
    /\ LET model_name == get_model_name(req.model)
           audited == tasks.audit.status = "done"
       IN  IF audited /\ AuditBlocks(Get(tasks.audit.result))
           THEN /\ st' = AuditBlockUpdate(st, Get(tasks.audit.result), model_name)
                /\ spc' = "END"
                /\ grd' = grd
           ELSE /\ grd' = [status |-> "called",
                           request |-> Some(GuardianRequest(Get(tasks.gen.result).text, req)),
                           result |-> None]
                /\ spc' = "guardian_wait"
                /\ st' = st
    /\ UNCHANGED <<aside, settings, wiring, req, db, gw, tasks, calls, reply, stages>>

\* Guardian serves /validate; its judge calls are model calls.
GuardianValidates ==
    /\ grd.status = "called"
    /\ \E tox \in ToxicityOutcomes, par \in ToxicityOutcomes :
          LET result == Validate(Get(grd.request), wiring.judges, tox, par)
          IN  /\ grd' = [grd EXCEPT !.status = "returned", !.result = Some(result)]
              /\ calls' = calls \o result.judge_calls
    /\ UNCHANGED <<aside, settings, wiring, req, db, gw, st, spc, tasks, reply, stages>>

\* The call to Guardian fails: call_guardian passes the response through.
GuardianCallFails ==
    /\ grd.status = "called"
    /\ grd' = [grd EXCEPT !.status = "failed",
                          !.result = Some(GuardianFallback(Get(grd.request).llm_response))]
    /\ UNCHANGED <<aside, settings, wiring, req, db, gw, st, spc, tasks, calls, reply, stages>>

\* The rest of the node after call_guardian: Guardian's block, or
\* de-pseudonymization and the returned state.
ModelStageFinish ==
    /\ spc = "guardian_wait"
    /\ grd.status \in {"returned", "failed"}
    /\ LET guardian_result == Get(grd.result)
           gen == Get(tasks.gen.result)
           model_name == get_model_name(req.model)
           audit == IF tasks.audit.status = "done" THEN tasks.audit.result ELSE None
           out == IF guardian_result.content_blocked
                  THEN GuardianBlockUpdate(st, guardian_result.content_block_reason, model_name)
                  ELSE GuardianMetricsUpdate(
                           PassUpdate(st, guardian_result.validated_response,
                                      TokensUsed(gen.input_tokens, gen.output_tokens),
                                      model_name),
                           guardian_result, wiring.llm)
       IN  st' = [out EXCEPT !.security_llm_check = audit]
    /\ spc' = "END"
    /\ UNCHANGED <<aside, settings, wiring, req, db, gw, tasks, calls, grd, reply, stages>>

\* main.py chat: the graph ended, the ChatResponse goes back to the Gateway.
SentinelResponds ==
    /\ spc = "END"
    /\ reply' = Some(ChatResponse(st))
    /\ spc' = "done"
    /\ UNCHANGED <<aside, settings, wiring, req, db, gw, st, tasks, calls, grd, stages>>

Next ==
    \/ GatewayAuthenticate
    \/ GatewayDispatch
    \/ GatewayHttpError
    \/ GatewayOtherError
    \/ GatewayTranslate
    \/ SecurityCheck
    \/ SecurityCheckRaises
    \/ SecurityLlmReturns
    \/ SecurityLlmRaises
    \/ ToonConversion
    \/ LlmNodeStart
    \/ GenerationReturns
    \/ AuditReturns
    \/ GenerationRaises
    \/ AuditRaises
    \/ FanoutJoin
    \/ GuardianValidates
    \/ GuardianCallFails
    \/ ModelStageFinish
    \/ SentinelResponds

Spec == Init /\ [][Next]_vars

\* --------------------------------- pseudonymization round trip (SpecPII)

MaxLen == 3

\* Input atoms: a word, the PII literals, and a word shaped like a token.
Alphabet == {"hello", "123-45-6789", "987-65-4321", "j@x.com", "[SSN_1]"}

Texts == UNION {[1..n -> Alphabet] : n \in 0..MaxLen}

\* The variables of the request pipeline, at rest.
PipelineAtRest ==
    /\ settings = DefaultSettings
    /\ wiring = [llm |-> "parallel_llm", judges |-> "nodes"]
    /\ req = [api_key |-> Some("k-active"), query |-> <<>>,
              model |-> "gemini-3-flash-preview",
              settings |-> [pii_masking |-> TRUE, enable_llm_forward |-> TRUE,
                            hallucination_check |-> FALSE]]
    /\ db = InitialTable
    /\ gw = NewHandler
    /\ st = InitialState
    /\ spc = "idle"
    /\ tasks = IdleTasks
    /\ calls = <<>>
    /\ grd = IdleGuardian
    /\ reply = None
    /\ stages = <<>>

pipeline == <<settings, wiring, req, db, gw, st, spc, tasks, calls, grd, reply, stages>>

InitPII ==
    /\ PipelineAtRest
    /\ redis = None
    /\ handlers = <<>>
    /\ gd = None
    /\ roundtrip \in {[pc |-> "input", x |-> t, text |-> t, mapping |-> <<>>] : t \in Texts}

\* security.py 168-180: step 2 of security_check.
Pseudonymize ==
    /\ roundtrip.pc = "input"
    /\ LET p == pseudonymize_pii(roundtrip.x)
       IN  roundtrip' = [roundtrip EXCEPT !.pc = "pseudonymized",
                                          !.text = p.text, !.mapping = p.mapping]
    /\ UNCHANGED <<pipeline, handlers, gd, redis>>

\* parallel_llm.py 307-314 on a response that echoes the pseudonymized text.
Depseudonymize ==
    /\ roundtrip.pc = "pseudonymized"
    /\ roundtrip' = [roundtrip EXCEPT
                        !.pc = "restored",
                        !.text = Get(RestoredResponse(Some(roundtrip.text),
                                                      roundtrip.mapping))]
    /\ UNCHANGED <<pipeline, handlers, gd, redis>>

NextPII == Pseudonymize \/ Depseudonymize

SpecPII == InitPII /\ [][NextPII]_vars

\* ------------------------------- concurrent handlers on one key (SpecConc)

NumHandlers == 3

SharedKey == "k-active"

\* Replies of Sentinel to requests that passed: with the usage of a model
\* call, and without one.
PassedReplies ==
    {ChatResponse(PassUpdate(InitialState, Some(<<"fine">>), TokensUsed(12, 5),
                             "gemini-3-flash-preview")),
     ChatResponse(PassUpdate(InitialState, Some(<<"hello">>), TokensUsed(3, 1),
                             "gemini-3-flash-preview")),
     ChatResponse(InitialState)}

InitConc ==
    /\ PipelineAtRest
    /\ redis = None
    /\ roundtrip = None
    /\ gd = None
    /\ handlers = [h \in 1..NumHandlers |->
                      [pc |-> "auth", api_key |-> None, input_tokens |-> 0,
                       output_tokens |-> 0]]

\* get_api_key of handler h: its session loads the ApiKey row.
ConcAuthenticate(h) ==
    /\ handlers[h].pc = "auth"
    /\ get_api_key(Some(SharedKey), db) = 0
    /\ handlers' = [handlers EXCEPT ![h].pc = "wait",
                                    ![h].api_key = Some(db[Hash(SharedKey)])]
    /\ UNCHANGED <<pipeline, roundtrip, gd, redis>>

\* Handler h after its await of Sentinel: chat.py 127-240 for a reply that is
\* not blocked, accounted on the object loaded at authentication.
ConcAccount(h) ==
    /\ handlers[h].pc = "wait"
    /\ \E sentinel_result \in PassedReplies :
          LET metrics == ResponseMetrics(sentinel_result)
              accounted == Account(Get(handlers[h].api_key), metrics, req.model)
          IN  /\ ~IsBlocked(sentinel_result)
              /\ db' = Commit(db, Hash(SharedKey), accounted)
              /\ handlers' = [handlers EXCEPT
                     ![h].pc = "done",
                     ![h].api_key = Some(accounted),
                     ![h].input_tokens = IF metrics.token_usage = None THEN 0
                                         ELSE Get(metrics.token_usage).input_tokens,
                     ![h].output_tokens = IF metrics.token_usage = None THEN 0
                                          ELSE Get(metrics.token_usage).output_tokens]
    /\ UNCHANGED <<settings, wiring, req, gw, st, spc, tasks, calls, grd, reply, stages,
                   roundtrip, gd, redis>>

NextConc == \E h \in 1..NumHandlers : ConcAuthenticate(h) \/ ConcAccount(h)

SpecConc == InitConc /\ [][NextConc]_vars

\* ------------------------------------- Guardian's /validate (SpecGuardian)

\* Completions Guardian is asked to validate: empty, clean, one of each
\* pattern category, two categories, an SSN leak, medical advice, TOON.
GuardianTexts ==
    {<<>>, <<"fine">>, <<"kill someone">>, <<"explicit">>, <<"political">>,
     <<"explicit", "political">>, <<"123-45-6789", "I cannot">>,
     <<"diagnosis", "symptoms", "studies show">>, ToonText,
     <<"j@x.com", "10.0.0.1">>, <<"123-45-6789", "j@x.com", "10.0.0.1">>}

ModerationModes == {"strict", "moderate", "relaxed", "raw"}

\* toxicity_threshold of the guardrails: absent, 0, 0.5 and 1.
Thresholds == {None, Some(0), Some(500), Some(1000)}

AllGuardrails ==
    [hallucination_check |-> TRUE, citation_verification |-> TRUE,
     false_refusal_check |-> TRUE, auto_disclaimers |-> TRUE,
     brand_tone |-> Some("professional"), toxicity_threshold |-> None]

GuardrailChoices ==
    {[g EXCEPT !.toxicity_threshold = t] : g \in {NoGuardrails, AllGuardrails},
                                           t \in Thresholds}

\* config of the request: no judge enabled, all three, the toxicity judge only.
JudgeConfigs ==
    {[enable_content_filter |-> FALSE, enable_hallucination_detector |-> FALSE,
      enable_tone_checker |-> FALSE],
     [enable_content_filter |-> TRUE, enable_hallucination_detector |-> TRUE,
      enable_tone_checker |-> TRUE],
     [enable_content_filter |-> TRUE, enable_hallucination_detector |-> FALSE,
      enable_tone_checker |-> FALSE]}

ValidateRequests ==
    [llm_response : GuardianTexts, moderation_mode : ModerationModes,
     output_format : {"json"}, guardrails : GuardrailChoices,
     original_query : {<<>>, <<"what?">>}, config : JudgeConfigs]

JudgeNames == {"toxicity_scoring", "toxicity", "hallucination", "tone"}

IdleJudge == [status |-> "idle", outcome |-> None]
RunningJudge == [status |-> "running", outcome |-> None]
ReturnedJudge(outcome) == [status |-> "returned", outcome |-> Some(outcome)]

\* What judge j can answer.
OutcomesOf(j) == IF j \in {"toxicity_scoring", "toxicity"} THEN ToxicityOutcomes
                 ELSE JudgeOutcomes

InitGuardian ==
    /\ PipelineAtRest
    /\ redis = None
    /\ handlers = <<>>
    /\ roundtrip = None
    /\ gd \in {[wiring |-> w, pc |-> "content_filter", request |-> r,
                state |-> GuardianInitialState(r, w),
                judges |-> [j \in JudgeNames |-> IdleJudge],
                stages |-> <<>>, response |-> None] :
               w \in JudgeWirings, r \in ValidateRequests}

\* A node of the graph that awaits no judge ran, and the graph moves on.
RunNode(node, result, next) ==
    [gd EXCEPT !.pc = next, !.state = result, !.stages = Append(@, node)]

\* A node that awaits judge j issued the call.
CallJudge(node, j) ==
    [gd EXCEPT !.pc = j, !.judges[j] = RunningJudge, !.stages = Append(@, node)]

\* content_filter_node up to its await of llm_toxicity_scoring, or to its end.
ContentFilter ==
    /\ gd.pc = "content_filter"
    /\ gd' = IF ToxicityScoringCalled(gd.state)
             THEN CallJudge("content_filter", "toxicity_scoring")
             ELSE LET result == content_filter_node(gd.state, [kind |-> "failed",
                                                              toxicity_score |-> 0])
                  IN  RunNode("content_filter", result, route_after_filter(result))
    /\ UNCHANGED <<pipeline, handlers, roundtrip, redis>>

\* llm_toxicity_scoring returns: the rest of content_filter_node and the
\* conditional edge.
ToxicityScoringReturns ==
    /\ gd.pc = "toxicity_scoring"
    /\ \E tox \in ToxicityOutcomes :
          LET result == content_filter_node(gd.state, tox)
          IN  gd' = [gd EXCEPT !.pc = route_after_filter(result),
                               !.state = result,
                               !.judges["toxicity_scoring"] = ReturnedJudge(tox)]
    /\ UNCHANGED <<pipeline, handlers, roundtrip, redis>>

PiiScanner ==
    /\ gd.pc = "pii_scanner"
    /\ gd' = RunNode("pii_scanner", PiiScannerUpdate(gd.state), "toon_decoder")
    /\ UNCHANGED <<pipeline, handlers, roundtrip, redis>>

\* After the decoder: the judge nodes of graph.py, or the parallel validator.
ToonDecoder ==
    /\ gd.pc = "toon_decoder"
    /\ gd' = RunNode("toon_decoder", toon_decoder_node(gd.state),
                     IF gd.wiring = "nodes" THEN "hallucination_detector"
                     ELSE "parallel_llm_validator")
    /\ UNCHANGED <<pipeline, handlers, roundtrip, redis>>

HallucinationDetector ==
    /\ gd.pc = "hallucination_detector"
    /\ gd' = IF HallucinationDetectorCalls(gd.state)
             THEN CallJudge("hallucination_detector", "hallucination")
             ELSE RunNode("hallucination_detector", gd.state, "citation_verifier")
    /\ UNCHANGED <<pipeline, handlers, roundtrip, redis>>

HallucinationReturns ==
    /\ gd.pc = "hallucination"
    /\ \E outcome \in JudgeOutcomes :
          gd' = [gd EXCEPT !.pc = "citation_verifier",
                           !.state = hallucination_detector_node(gd.state, outcome),
                           !.judges["hallucination"] = ReturnedJudge(outcome)]
    /\ UNCHANGED <<pipeline, handlers, roundtrip, redis>>

CitationVerifier ==
    /\ gd.pc = "citation_verifier"
    /\ gd' = RunNode("citation_verifier", citation_verifier_node(gd.state),
                     IF gd.wiring = "nodes" THEN "tone_checker" ELSE "refusal_detector")
    /\ UNCHANGED <<pipeline, handlers, roundtrip, redis>>

ToneChecker ==
    /\ gd.pc = "tone_checker"
    /\ gd' = IF ToneCheckerCalls(gd.state)
             THEN CallJudge("tone_checker", "tone")
             ELSE RunNode("tone_checker", gd.state, "refusal_detector")
    /\ UNCHANGED <<pipeline, handlers, roundtrip, redis>>

ToneReturns ==
    /\ gd.pc = "tone"
    /\ \E outcome \in JudgeOutcomes :
          gd' = [gd EXCEPT !.pc = "refusal_detector",
                           !.state = tone_checker_node(gd.state, outcome),
                           !.judges["tone"] = ReturnedJudge(outcome)]
    /\ UNCHANGED <<pipeline, handlers, roundtrip, redis>>

RefusalDetector ==
    /\ gd.pc = "refusal_detector"
    /\ gd' = RunNode("refusal_detector", refusal_detector_node(gd.state),
                     "disclaimer_injector")
    /\ UNCHANGED <<pipeline, handlers, roundtrip, redis>>

DisclaimerInjector ==
    /\ gd.pc = "disclaimer_injector"
    /\ gd' = RunNode("disclaimer_injector", disclaimer_injector_node(gd.state), "END")
    /\ UNCHANGED <<pipeline, handlers, roundtrip, redis>>

ParallelJudges == {"toxicity", "hallucination", "tone"}

\* parallel_llm_validator_node up to asyncio.gather: every enabled check has
\* issued its judge call.
ParallelValidatorStart ==
    /\ gd.pc = "parallel_llm_validator"
    /\ gd' = IF gd.state.llm_response = <<>>
             THEN RunNode("parallel_llm_validator", gd.state, "citation_verifier")
             ELSE [gd EXCEPT
                      !.pc = "parallel_wait",
                      !.stages = Append(@, "parallel_llm_validator"),
                      !.judges = [j \in JudgeNames |->
                                     IF j \in ParallelChecksEnabled(gd.state)
                                     THEN RunningJudge ELSE gd.judges[j]]]
    /\ UNCHANGED <<pipeline, handlers, roundtrip, redis>>

\* One of the gathered judge calls returns.
ParallelJudgeReturns ==
    /\ gd.pc = "parallel_wait"
    /\ \E j \in ParallelJudges :
          /\ gd.judges[j].status = "running"
          /\ \E outcome \in OutcomesOf(j) :
                gd' = [gd EXCEPT !.judges[j] = ReturnedJudge(outcome)]
    /\ UNCHANGED <<pipeline, handlers, roundtrip, redis>>

\* asyncio.gather returns when every call has: the merge into the state, or
\* the exception of the merge, which the handler does not catch.
ParallelJoin ==
    /\ gd.pc = "parallel_wait"
    /\ \A j \in ParallelJudges : gd.judges[j].status # "running"
    /\ IF ParallelMergeRaises(gd.judges)
       THEN gd' = [gd EXCEPT !.pc = "raised", !.response = Some([status |-> 500])]
       ELSE gd' = [gd EXCEPT !.pc = "citation_verifier",
                             !.state = parallel_llm_validator_node(gd.state, gd.judges)]
    /\ UNCHANGED <<pipeline, handlers, roundtrip, redis>>

\* The graph ended: the handler answers with the ValidateResponse.
ValidateResponds ==
    /\ gd.pc = "END"
    /\ gd' = [gd EXCEPT !.pc = "done", !.response = Some(ValidateResponse(gd.state))]
    /\ UNCHANGED <<pipeline, handlers, roundtrip, redis>>

NextGuardian ==
    \/ ContentFilter
    \/ ToxicityScoringReturns
    \/ PiiScanner
    \/ ToonDecoder
    \/ HallucinationDetector
    \/ HallucinationReturns
    \/ CitationVerifier
    \/ ToneChecker
    \/ ToneReturns
    \/ RefusalDetector
    \/ DisclaimerInjector
    \/ ParallelValidatorStart
    \/ ParallelJudgeReturns
    \/ ParallelJoin
    \/ ValidateResponds

SpecGuardian == InitGuardian /\ [][NextGuardian]_vars

\* ------------------------------------ TOON, character by character (SpecToon)

\* Python data: a tag and a payload that is always a sequence. A str is a
\* sequence of one-character strings, a dict the sequence of its
\* <<key, value>> items in insertion order.
JNull == [t |-> "null", v |-> <<>>]
JBool(b) == [t |-> "bool", v |-> <<b>>]
JNum(n) == [t |-> "num", v |-> <<n>>]
JStr(s) == [t |-> "str", v |-> s]
JArr(items) == [t |-> "arr", v |-> items]
JObj(pairs) == [t |-> "obj", v |-> pairs]

\* [a-zA-Z], \w and the whitespace json.loads and str.strip skip.
Letters ==
    {"a", "b", "c", "d", "e", "f", "g", "h", "i", "j", "k", "l", "m", "n", "o",
     "p", "q", "r", "s", "t", "u", "v", "w", "x", "y", "z",
     "A", "B", "C", "D", "E", "F", "G", "H", "I", "J", "K", "L", "M", "N", "O",
     "P", "Q", "R", "S", "T", "U", "V", "W", "X", "Y", "Z"}
WordChars == Letters \cup Range(DigitChars) \cup {"_"}
Whitespace == {" ", "\t", "\n", "\r"}

RECURSIVE Concat(_)
\* "".join(parts)
Concat(parts) == IF parts = <<>> THEN <<>> ELSE parts[1] \o Concat(Tail(parts))

RECURSIVE JoinChars(_, _)
\* sep.join(parts)
JoinChars(sep, parts) ==
    IF parts = <<>> THEN <<>>
    ELSE IF Len(parts) = 1 THEN parts[1]
    ELSE parts[1] \o sep \o JoinChars(sep, Tail(parts))

RECURSIVE IntStr(_)
\* str(n) of an int.
IntStr(n) ==
    IF n < 0 THEN <<"-">> \o IntStr(0 - n)
    ELSE IF n < 10 THEN <<Digit(n)>>
    ELSE IntStr(n \div 10) \o <<Digit(n % 10)>>

RECURSIVE Strip(_)
\* str.strip()
Strip(s) ==
    IF s = <<>> THEN s
    ELSE IF s[1] \in Whitespace THEN Strip(Tail(s))
    ELSE IF s[Len(s)] \in Whitespace THEN Strip(SubSeq(s, 1, Len(s) - 1))
    ELSE s

\* ToonConverter.KEY_ABBREVIATIONS (toon_converter.py 27-42).
KEY_ABBREVIATIONS ==
    << <<<<"p", "r", "o", "m", "p", "t">>, <<"p">>>>,
       <<<<"m", "e", "s", "s", "a", "g", "e">>, <<"m">>>>,
       <<<<"c", "o", "n", "t", "e", "n", "t">>, <<"c">>>>,
       <<<<"r", "o", "l", "e">>, <<"r">>>>,
       <<<<"s", "y", "s", "t", "e", "m">>, <<"s">>>>,
       <<<<"u", "s", "e", "r">>, <<"u">>>>,
       <<<<"a", "s", "s", "i", "s", "t", "a", "n", "t">>, <<"a">>>>,
       <<<<"t", "e", "m", "p", "e", "r", "a", "t", "u", "r", "e">>, <<"t">>>>,
       <<<<"m", "a", "x", "_", "t", "o", "k", "e", "n", "s">>, <<"m", "t">>>>,
       <<<<"m", "e", "s", "s", "a", "g", "e", "s">>, <<"m", "s">>>>,
       <<<<"c", "o", "n", "t", "e", "x", "t">>, <<"c", "t", "x">>>>,
       <<<<"h", "i", "s", "t", "o", "r", "y">>, <<"h">>>>,
       <<<<"r", "e", "s", "p", "o", "n", "s", "e">>, <<"r", "e", "s">>>>,
       <<<<"r", "e", "q", "u", "e", "s", "t">>, <<"r", "e", "q">>>> >>

\* KEY_ABBREVIATIONS[key] if key in KEY_ABBREVIATIONS else key (lines 87-88).
Abbreviate(key) ==
    IF \E i \in 1..Len(KEY_ABBREVIATIONS) : KEY_ABBREVIATIONS[i][1] = key
    THEN KEY_ABBREVIATIONS[CHOOSE i \in 1..Len(KEY_ABBREVIATIONS) :
                              KEY_ABBREVIATIONS[i][1] = key][2]
    ELSE key

\* KEY_EXPANSIONS.get(k, k): the reverse mapping (line 45; Guardian's table,
\* toon_decoder.py 22-37, holds the same pairs).
KEY_EXPANSIONS_get(k) ==
    IF \E i \in 1..Len(KEY_ABBREVIATIONS) : KEY_ABBREVIATIONS[i][2] = k
    THEN KEY_ABBREVIATIONS[CHOOSE i \in 1..Len(KEY_ABBREVIATIONS) :
                              KEY_ABBREVIATIONS[i][2] = k][1]
    ELSE k

\* v.replace("\\", "\\\\").replace('"', '\\"') (line 76).
EscapeStr(s) ==
    Concat([i \in 1..Len(s) |->
               IF s[i] = "\\" THEN <<"\\", "\\">>
               ELSE IF s[i] = "\"" THEN <<"\\", "\"">>
               ELSE <<s[i]>>])

RECURSIVE compact_value(_)
\* compact_value (lines 68-92), with use_abbreviations = True.
compact_value(v) ==
    CASE v.t = "null" -> <<"~">>
      [] v.t = "bool" -> IF v.v[1] THEN <<"T">> ELSE <<"F">>
      [] v.t = "str" -> <<"\"">> \o EscapeStr(v.v) \o <<"\"">>
      [] v.t = "num" -> IntStr(v.v[1])
      [] v.t = "arr" ->
            <<"[">> \o JoinChars(<<",">>, [i \in 1..Len(v.v) |-> compact_value(v.v[i])])
                    \o <<"]">>
      [] v.t = "obj" ->
            <<"{">> \o JoinChars(<<",">>,
                          [i \in 1..Len(v.v) |->
                              Abbreviate(v.v[i][1]) \o <<":">> \o compact_value(v.v[i][2])])
                    \o <<"}">>

RECURSIVE json_dumps(_)
\* json.dumps(data, separators=(',', ':')) on ASCII data.
json_dumps(v) ==
    CASE v.t = "null" -> <<"n", "u", "l", "l">>
      [] v.t = "bool" -> IF v.v[1] THEN <<"t", "r", "u", "e">>
                                   ELSE <<"f", "a", "l", "s", "e">>
      [] v.t = "str" -> <<"\"">> \o EscapeStr(v.v) \o <<"\"">>
      [] v.t = "num" -> IntStr(v.v[1])
      [] v.t = "arr" ->
            <<"[">> \o JoinChars(<<",">>, [i \in 1..Len(v.v) |-> json_dumps(v.v[i])])
                    \o <<"]">>
      [] v.t = "obj" ->
            <<"{">> \o JoinChars(<<",">>,
                          [i \in 1..Len(v.v) |->
                              <<"\"">> \o EscapeStr(v.v[i][1]) \o <<"\"", ":">>
                                       \o json_dumps(v.v[i][2])])
                    \o <<"}">>

\* json.loads, by recursive descent. A parse answers [ok, val, next]: whether
\* a value starts at the position, the value, and the position after it.
\* Numbers are integers and escapes are the one-character ones: the data of
\* the model holds no fraction, exponent or \u escape.
ParseFail == [ok |-> FALSE, val |-> JNull, next |-> 1]
Parsed(val, next) == [ok |-> TRUE, val |-> val, next |-> next]

RECURSIVE SkipWs(_, _)
SkipWs(s, i) == IF i <= Len(s) /\ s[i] \in Whitespace THEN SkipWs(s, i + 1) ELSE i

\* s[i:].startswith(word)
StartsWith(s, i, word) ==
    /\ i + Len(word) - 1 <= Len(s)
    /\ SubSeq(s, i, i + Len(word) - 1) = word

JsonEscapes ==
    ("\"" :> "\"") @@ ("\\" :> "\\") @@ ("/" :> "/")
    @@ ("n" :> "\n") @@ ("t" :> "\t") @@ ("r" :> "\r")

RECURSIVE DigitsEnd(_, _)
\* The position after the run of digits that starts at i.
DigitsEnd(s, i) ==
    IF i <= Len(s) /\ s[i] \in Range(DigitChars) THEN DigitsEnd(s, i + 1) ELSE i

RECURSIVE DigitsValue(_)
DigitsValue(ds) ==
    IF ds = <<>> THEN 0
    ELSE DigitsValue(SubSeq(ds, 1, Len(ds) - 1)) * 10 + DigitValue(ds[Len(ds)])

\* -?(?:0|[1-9]\d*) at position i.
ParseNumber(s, i) ==
    LET neg == s[i] = "-"
        d == IF neg THEN i + 1 ELSE i
    IN  Get({IF e = d THEN ParseFail
             ELSE Get({Parsed(JNum(IF neg THEN 0 - n ELSE n), e) :
                       n \in {DigitsValue(SubSeq(s, d, e - 1))}}) :
             e \in {IF d <= Len(s) /\ s[d] = "0" THEN d + 1 ELSE DigitsEnd(s, d)}})

RECURSIVE ParseString(_, _, _)
\* The characters after an opening quote, up to the closing one.
ParseString(s, i, acc) ==
    IF i > Len(s) THEN ParseFail
    ELSE IF s[i] = "\"" THEN Parsed(JStr(acc), i + 1)
    ELSE IF s[i] = "\\"
         THEN IF i + 1 <= Len(s) /\ s[i + 1] \in DOMAIN JsonEscapes
              THEN ParseString(s, i + 2, Append(acc, JsonEscapes[s[i + 1]]))
              ELSE ParseFail
    ELSE ParseString(s, i + 1, Append(acc, s[i]))

\* d[k] = v on the items of a dict: a key keeps its first position.
DictSet(pairs, k, v) ==
    IF \E i \in 1..Len(pairs) : pairs[i][1] = k
    THEN [pairs EXCEPT ![CHOOSE i \in 1..Len(pairs) : pairs[i][1] = k] = <<k, v>>]
    ELSE Append(pairs, <<k, v>>)

RECURSIVE ParseValue(_, _)
RECURSIVE ParseItems(_, _, _)
RECURSIVE ParsePairs(_, _, _)

\* Each intermediate result is bound once, as the element of a singleton.
ParseValue(s, i0) ==
    Get({IF i > Len(s) THEN ParseFail
         ELSE IF s[i] = "\"" THEN ParseString(s, i + 1, <<>>)
         ELSE IF s[i] = "[" THEN
             Get({IF j <= Len(s) /\ s[j] = "]" THEN Parsed(JArr(<<>>), j + 1)
                  ELSE ParseItems(s, j, <<>>) : j \in {SkipWs(s, i + 1)}})
         ELSE IF s[i] = "{" THEN
             Get({IF j <= Len(s) /\ s[j] = "}" THEN Parsed(JObj(<<>>), j + 1)
                  ELSE ParsePairs(s, j, <<>>) : j \in {SkipWs(s, i + 1)}})
         ELSE IF StartsWith(s, i, <<"n", "u", "l", "l">>) THEN Parsed(JNull, i + 4)
         ELSE IF StartsWith(s, i, <<"t", "r", "u", "e">>) THEN Parsed(JBool(TRUE), i + 4)
         ELSE IF StartsWith(s, i, <<"f", "a", "l", "s", "e">>)
              THEN Parsed(JBool(FALSE), i + 5)
         ELSE IF s[i] = "-" \/ s[i] \in Range(DigitChars) THEN ParseNumber(s, i)
         ELSE ParseFail :
         i \in {SkipWs(s, i0)}})

\* After one item of an array: "," and the next item, or "]".
AfterItem(s, j, items) ==
    IF j > Len(s) THEN ParseFail
    ELSE IF s[j] = "," THEN ParseItems(s, j + 1, items)
    ELSE IF s[j] = "]" THEN Parsed(JArr(items), j + 1)
    ELSE ParseFail

\* The items of an array after "[" or ",", up to "]".
ParseItems(s, i, acc) ==
    Get({IF ~r.ok THEN ParseFail
         ELSE Get({AfterItem(s, j, items) :
                   j \in {SkipWs(s, r.next)}, items \in {Append(acc, r.val)}}) :
         r \in {ParseValue(s, i)}})

\* After one member of an object: "," and the next member, or "}".
AfterPair(s, j, pairs) ==
    IF j > Len(s) THEN ParseFail
    ELSE IF s[j] = "," THEN ParsePairs(s, j + 1, pairs)
    ELSE IF s[j] = "}" THEN Parsed(JObj(pairs), j + 1)
    ELSE ParseFail

\* The value of a member after its key k, and what follows it.
ParseMember(s, k, acc) ==
    Get({IF c > Len(s) \/ s[c] # ":" THEN ParseFail
         ELSE Get({IF ~r.ok THEN ParseFail
                   ELSE Get({AfterPair(s, j, pairs) :
                             j \in {SkipWs(s, r.next)},
                             pairs \in {DictSet(acc, k.val.v, r.val)}}) :
                   r \in {ParseValue(s, c + 1)}}) :
         c \in {SkipWs(s, k.next)}})

\* The members of an object after "{" or ",", up to "}".
ParsePairs(s, i0, acc) ==
    Get({IF i > Len(s) \/ s[i] # "\"" THEN ParseFail
         ELSE Get({IF ~k.ok THEN ParseFail ELSE ParseMember(s, k, acc) :
                   k \in {ParseString(s, i + 1, <<>>)}}) :
         i \in {SkipWs(s, i0)}})

\* json.loads(s): the whole text is one value; ok = FALSE is JSONDecodeError.
json_loads(s) ==
    Get({IF r.ok /\ SkipWs(s, r.next) > Len(s) THEN r ELSE ParseFail :
         r \in {ParseValue(s, 1)}})

\* re.sub(r'(?<![\\])~', 'null', s)
SubTilde(s) ==
    Concat([i \in 1..Len(s) |->
               IF s[i] = "~" /\ (i = 1 \/ s[i - 1] # "\\")
               THEN <<"n", "u", "l", "l">> ELSE <<s[i]>>])

\* re.sub(r'(?<![a-zA-Z])X(?![a-zA-Z])', word, s) for the one letter X.
SubLetter(s, letter, word) ==
    Concat([i \in 1..Len(s) |->
               IF /\ s[i] = letter
                  /\ (i = 1 \/ s[i - 1] \notin Letters)
                  /\ (i = Len(s) \/ s[i + 1] \notin Letters)
               THEN word ELSE <<s[i]>>])

RECURSIVE WordEnd(_, _)
\* The position after the run of \w characters that starts at i.
WordEnd(s, i) == IF i <= Len(s) /\ s[i] \in WordChars THEN WordEnd(s, i + 1) ELSE i

RECURSIVE QuoteKeysFrom(_, _)
QuoteKeysFrom(s, i) ==
    IF i > Len(s) THEN <<>>
    ELSE Get({IF s[i] \in {"{", ","} /\ j > i + 1 /\ j <= Len(s) /\ s[j] = ":"
              THEN <<s[i], "\"">> \o SubSeq(s, i + 1, j - 1) \o <<"\"", ":">>
                   \o Get({QuoteKeysFrom(s, n) : n \in {j + 1}})
              ELSE <<s[i]>> \o Get({QuoteKeysFrom(s, n) : n \in {i + 1}}) :
              j \in {WordEnd(s, i + 1)}})

\* re.sub(r'([{,])(\w+):', r'\1"\2":', s)
QuoteKeys(s) == QuoteKeysFrom(s, 1)

\* The four substitutions of from_toon (toon_converter.py 109-115) and of
\* ToonDecoder.decode (toon_decoder.py 74-84).
ToonToJson(toon_str) ==
    QuoteKeys(SubLetter(SubLetter(SubTilde(toon_str), "T", <<"t", "r", "u", "e">>),
                        "F", <<"f", "a", "l", "s", "e">>))

RECURSIVE ExpandPairs(_, _)
RECURSIVE expand_keys(_)
\* The dict comprehension of _expand_keys, item by item.
ExpandPairs(pairs, acc) ==
    IF pairs = <<>> THEN acc
    ELSE ExpandPairs(Tail(pairs),
                     DictSet(acc, KEY_EXPANSIONS_get(pairs[1][1]), expand_keys(pairs[1][2])))

\* _expand_keys (toon_converter.py 128-138, toon_decoder.py 98-108).
expand_keys(data) ==
    IF data.t = "obj" THEN JObj(ExpandPairs(data.v, <<>>))
    ELSE IF data.t = "arr" THEN JArr([i \in 1..Len(data.v) |-> expand_keys(data.v[i])])
    ELSE data

\* ToonConverter.to_toon (lines 47-94): a str is parsed as JSON first.
ToonConverter_to_toon(data) ==
    IF data.t = "str"
    THEN Get({IF parsed.ok THEN compact_value(parsed.val) ELSE Strip(data.v) :
              parsed \in {json_loads(data.v)}})
    ELSE compact_value(data)

\* ToonConverter.from_toon (lines 96-126), with expand_abbreviations = True.
from_toon(toon_str) ==
    Get({IF ~loaded.ok THEN JStr(toon_str)
         ELSE IF loaded.val.t = "obj" THEN expand_keys(loaded.val)
         ELSE loaded.val :
         loaded \in {json_loads(ToonToJson(toon_str))}})

\* ToonDecoder.decode (toon_decoder.py 61-96): the data and the success flag.
ToonDecoder_decode(toon_str) ==
    IF toon_str = <<>> THEN [data |-> JStr(toon_str), success |-> FALSE]
    ELSE Get({IF ~loaded.ok THEN [data |-> JStr(toon_str), success |-> FALSE]
              ELSE [data |-> expand_keys(loaded.val), success |-> TRUE] :
              loaded \in {json_loads(ToonToJson(toon_str))}})

\* ToonConverter.convert_with_metrics (lines 140-189).
ToonConverter_convert_with_metrics(data) ==
    Get({[toon_str |-> toon_str,
          tokens_saved |-> Max2(0, (Len(original_str) \div CHARS_PER_TOKEN)
                                   - (Len(toon_str) \div CHARS_PER_TOKEN)),
          original_chars |-> Len(original_str),
          toon_chars |-> Len(toon_str)] :
         original_str \in {IF data.t = "str" THEN data.v ELSE json_dumps(data)},
         toon_str \in {ToonConverter_to_toon(data)}})

RECURSIVE JEq(_, _)
\* a == b on JSON values: dicts compare by their items, whatever the order.
JEq(a, b) ==
    /\ a.t = b.t
    /\ IF a.t = "arr"
       THEN /\ Len(a.v) = Len(b.v)
            /\ \A i \in 1..Len(a.v) : JEq(a.v[i], b.v[i])
       ELSE IF a.t = "obj"
       THEN /\ {a.v[i][1] : i \in 1..Len(a.v)} = {b.v[i][1] : i \in 1..Len(b.v)}
            /\ \A i \in 1..Len(a.v) : \A j \in 1..Len(b.v) :
                  a.v[i][1] = b.v[j][1] => JEq(a.v[i][2], b.v[j][2])
       ELSE a.v = b.v

\* The data of the round trip: scalars, strings over StringChars, and arrays
\* and objects one and two levels deep, with keys that are abbreviated, keys
\* that are an abbreviation, and keys that read as a TOON token.
MaxStrLen == 2
StringChars == {"a", "~", "T", "F", "\\"}
Strings == UNION {[1..n -> StringChars] : n \in 0..MaxStrLen}
Keys == {<<"m", "e", "s", "s", "a", "g", "e">>, <<"p">>, <<"T">>, <<"k">>}
Leaves == {JNull, JBool(TRUE), JBool(FALSE), JNum(7), JNum(12)}
          \cup {JStr(s) : s \in Strings}
SmallLeaves == {JNull, JBool(TRUE), JNum(12), JStr(<<"a">>), JStr(<<"~">>)}
Structures ==
    {JArr(<<>>), JObj(<<>>)}
    \cup {JArr(<<x>>) : x \in Leaves}
    \cup {JArr(<<x, y>>) : x \in SmallLeaves, y \in SmallLeaves}
    \cup {JObj(<< <<k, x>> >>) : k \in Keys, x \in Leaves}
    \cup {JObj(<< <<k[1], x>>, <<k[2], y>> >>) :
             k \in {kk \in Keys \X Keys : kk[1] # kk[2]},
             x \in SmallLeaves, y \in SmallLeaves}
    \cup {JArr(<<JObj(<< <<k, x>> >>)>>) : k \in Keys, x \in SmallLeaves}
    \cup {JObj(<< <<k, JArr(<<x>>)>> >>) : k \in Keys, x \in SmallLeaves}
\* A prompt that is JSON text, as toon_conversion_node passes it (line 222).
JsonPrompts == {JStr(json_dumps(v)) : v \in {s \in Structures : Len(s.v) = 1}}
JsonData == Leaves \cup Structures \cup JsonPrompts

InitToon ==
    /\ PipelineAtRest
    /\ redis = None
    /\ handlers = <<>>
    /\ gd = None
    /\ roundtrip \in {[pc |-> "data", x |-> v, toon_str |-> <<>>, tokens_saved |-> 0,
                       original_chars |-> 0, toon_chars |-> 0,
                       by |-> "none", decoded |-> JNull, success |-> FALSE] :
                      v \in JsonData}

\* ToonConverter.convert_with_metrics(data).
ConvertWithMetrics ==
    /\ roundtrip.pc = "data"
    /\ \E conv \in {ToonConverter_convert_with_metrics(roundtrip.x)} :
          roundtrip' = [roundtrip EXCEPT !.pc = "toon",
                                         !.toon_str = conv.toon_str,
                                         !.tokens_saved = conv.tokens_saved,
                                         !.original_chars = conv.original_chars,
                                         !.toon_chars = conv.toon_chars]
    /\ UNCHANGED <<pipeline, handlers, gd, redis>>

\* Sentinel's ToonConverter.from_toon on the encoding.
FromToon ==
    /\ roundtrip.pc = "toon"
    /\ roundtrip' = [roundtrip EXCEPT !.pc = "decoded", !.by = "from_toon",
                                      !.decoded = from_toon(roundtrip.toon_str),
                                      !.success = TRUE]
    /\ UNCHANGED <<pipeline, handlers, gd, redis>>

\* Guardian's ToonDecoder.decode on the encoding.
Decode ==
    /\ roundtrip.pc = "toon"
    /\ \E out \in {ToonDecoder_decode(roundtrip.toon_str)} :
          roundtrip' = [roundtrip EXCEPT !.pc = "decoded", !.by = "decode",
                                         !.decoded = out.data,
                                         !.success = out.success]
    /\ UNCHANGED <<pipeline, handlers, gd, redis>>

NextToon == ConvertWithMetrics \/ FromToon \/ Decode

SpecToon == InitToon /\ [][NextToon]_vars

\* ------------------------------ logs of two requests side by side (SpecLog)

\* pattern.findall(atom) over the detector's patterns: the matched substrings.
SqlFound(a) ==
    CASE a = "--" -> <<"--">>  [] a = "#" -> <<"#">>  [] a = "&#x27;" -> <<"#">>
      [] OTHER -> <<>>
XssFound(a) == CASE a = "<script>" -> <<"<script>">>  [] OTHER -> <<>>
CmdFound(a) ==
    CASE a = "&#x27;" -> <<"&", ";">>
      [] a = "&lt;script&gt;" -> <<"&", ";", "&", ";">>
      [] OTHER -> <<>>
PathFound(a) == CASE a = "../" -> <<"../">>  [] OTHER -> <<>>

\* matches[:n]
FirstN(s, n) == SubSeq(s, 1, Min2(n, Len(s)))

\* A log line: the message and its key/value fields.
LogLine(message, fields) == <<message, fields>>

\* logger.warning("<type> pattern detected", matches=matches[:3]) of one
\* detector (threat_detectors.py 114-115, 143-144, 172-173, 201-202).
DetectorLog(message, found) ==
    IF found # <<>>
    THEN <<LogLine(message, << <<"matches", FirstN(found, 3)>> >>)>>
    ELSE <<>>

\* The log lines of step 3's detectors on the text, in the order of the calls
\* (security.py 205-226).
DetectorLogs(cfg, text) ==
    (IF cfg.SECURITY_SQL_INJECTION_DETECTION_ENABLED
        THEN DetectorLog("SQL injection pattern detected",
                         Concat(MapSeq(text, SqlFound))) ELSE <<>>)
    \o (IF cfg.SECURITY_XSS_PROTECTION_ENABLED
        THEN DetectorLog("XSS pattern detected", Concat(MapSeq(text, XssFound)))
        ELSE <<>>)
    \o (IF cfg.SECURITY_COMMAND_INJECTION_DETECTION_ENABLED
        THEN DetectorLog("Command injection pattern detected",
                         Concat(MapSeq(text, CmdFound))) ELSE <<>>)
    \o DetectorLog("Path traversal pattern detected", Concat(MapSeq(text, PathFound)))

\* log_security_event (security.py 19-53): the event it logs.
log_security_event(event_type, severity, policy_violated, threat_score, client, now) ==
    [event_type |-> event_type,
     severity |-> severity,
     timestamp |-> now,
     service |-> "sentinel",
     policy_violated |-> policy_violated,
     threat_score |-> threat_score,
     client_ip |-> client.client_ip,
     user_agent |-> client.user_agent]

\* A faulty call that puts the prompt among the violated policies.
ThreatBlockedEventWithPayload(threats, user_input, client, now) ==
    log_security_event("THREAT_BLOCKED", "HIGH",
                       MapSeq(threats, ThreatType) \o user_input,
                       MaxConfidence(threats), client, now)

\* The call of security.py 246-256.
ThreatBlockedEvent(threats, user_input, client, now) ==
    log_security_event("THREAT_BLOCKED", "HIGH", MapSeq(threats, ThreatType),
                       MaxConfidence(threats), client, now)

\* metrics.record_pii_redaction(type, count) per detection (lines 186-190).
PiiMetric(d) == LogLine("metric pii_redaction", << <<"type", d.type>>, <<"count", d.count>> >>)

\* metrics.record_attack_prevented(type) and add_attack(type, confidence) per
\* threat (lines 236-240).
AttackMetric(t) ==
    LogLine("metric attack_prevented",
            << <<"type", t.threat_type>>, <<"confidence", t.confidence>> >>)

PiiType(d) == d.type

\* What security_check and the functions it calls log and record up to the
\* threat block or the step-4 call: log lines and metrics in order, and the
\* security event if one is emitted. Latencies are left out.
SecurityCheckLog(cfg, prompt, client, now) ==
    LET s == SecuritySteps(cfg, prompt)
        r == s.result
        blocked == ThreatBlocked(r.detected_threats)
    IN  [lines |->
            (IF cfg.SECURITY_SANITIZATION_ENABLED
             THEN (IF Get(r.sanitized_input) # prompt
                   THEN <<LogLine("Input sanitized",
                                  << <<"warnings", r.sanitization_warnings>> >>)>>
                   ELSE <<>>)
                  \o (IF r.sanitization_warnings # <<>>
                      THEN <<LogLine("Sanitization warnings",
                                     << <<"warnings", r.sanitization_warnings>> >>)>>
                      ELSE <<>>)
             ELSE <<>>)
            \o (IF cfg.SECURITY_PII_REDACTION_ENABLED
                THEN MapSeq(r.pii_detections, PiiMetric)
                     \o (IF r.pii_detections # <<>>
                         THEN <<LogLine("PII detected and pseudonymized",
                                        << <<"pii_types", MapSeq(r.pii_detections, PiiType)>>,
                                           <<"token_count", Len(r.pii_mapping)>> >>)>>
                         ELSE <<>>)
                ELSE <<>>)
            \o <<LogLine("Starting Threat Detection...", <<>>)>>
            \o DetectorLogs(cfg, s.user_input)
            \o <<LogLine("Threat Detection completed", <<>>)>>
            \o MapSeq(r.detected_threats, AttackMetric)
            \o (IF blocked
                THEN <<LogLine("metric request_end",
                               << <<"blocked", TRUE>>,
                                  <<"threat_score", MaxConfidence(r.detected_threats)>> >>)>>
                ELSE <<LogLine("Starting LLM Security Check...", <<>>)>>),
         event |-> IF blocked
                   THEN Some(ThreatBlockedEvent(r.detected_threats, s.user_input, client, now))
                   ELSE None,
         verdict |-> [is_blocked |-> blocked,
                      threat_types |-> MapSeq(r.detected_threats, ThreatType),
                      threat_scores |-> MapSeq(r.detected_threats, ThreatConfidence),
                      pii_detections |-> r.pii_detections,
                      sanitization_warnings |-> r.sanitization_warnings]]

\* The two prompts: words, an SSN, and atoms the detectors match.
LogAlphabet == {"hello", "fine", "--", "#", "../", "123-45-6789"}
LogPrompts == UNION {[1..n -> LogAlphabet] : n \in 1..MaxLen}
Clients == {[client_ip |-> Some("10.0.0.1"), user_agent |-> Some("curl")],
            [client_ip |-> None, user_agent |-> None]}
Times == {"t1", "t2"}

InitLog ==
    /\ PipelineAtRest
    /\ redis = None
    /\ handlers = <<>>
    /\ gd = None
    /\ roundtrip \in {[client |-> c, prompts |-> <<p, q>>, ran |-> <<FALSE, FALSE>>,
                       logs |-> <<None, None>>] :
                      c \in Clients,
                      p \in LogPrompts, q \in {<<"--">>, <<"#">>, <<"../", "../">>,
                                               <<"hello", "../", "../">>,
                                               <<"123-45-6789">>, <<"hello">>}}

\* security_check on the prompt of request i, up to its block or its await.
SecurityCheckLogged(i) ==
    /\ ~roundtrip.ran[i]
    /\ \E now \in Times :
          roundtrip' = [roundtrip EXCEPT
                           !.ran[i] = TRUE,
                           !.logs[i] = Some(SecurityCheckLog(DefaultSettings,
                                                             roundtrip.prompts[i],
                                                             roundtrip.client, now))]
    /\ UNCHANGED <<pipeline, handlers, gd, redis>>

NextLog == \E i \in 1..2 : SecurityCheckLogged(i)

SpecLog == InitLog /\ [][NextLog]_vars

\* ------------------------------------------- rate_limiter.py: RateLimiter
\*
\* One rate-limit key in Redis and the concurrent calls of RateLimiter working
\* on it. Every await on Redis is a step of its own; the pipeline of
\* check_limit (MULTI/EXEC) is one step. Time is abstract: the key's window
\* ends at the step KeyExpires, which Redis takes only for a key that carries
\* an expiry.

APP_CREATION_LIMIT == 2
KEY_CREATION_LIMIT == 4

NumCallers == 3
MaxCalls == 2

Callers == 1..NumCallers
RateOps == {"check_limit", "increment_and_check", "record_violation"}
Amounts == {1, 2}

\* A key of the store: its counter (None: the key does not exist) and
\* whether it carries an expiry.
NoKey == [value |-> None, expires |-> FALSE]

\* INCR / INCRBY: creates the key at 0 without an expiry when it is absent.
RedisIncrBy(key, amount) ==
    IF key.value = None THEN [value |-> Some(amount), expires |-> FALSE]
    ELSE [key EXCEPT !.value = Some(Get(key.value) + amount)]

\* EXPIRE: no effect on an absent key.
RedisExpire(key) == IF key.value = None THEN key ELSE [key EXCEPT !.expires = TRUE]

IdleCaller == [pc |-> "idle", calls |-> 0, amount |-> 1, current |-> None, result |-> None]

InitRate ==
    /\ PipelineAtRest
    /\ handlers = <<>>
    /\ roundtrip = None
    /\ gd = None
    /\ redis \in {[op |-> o, limit |-> l, key |-> NoKey, allowed |-> 0, errors |-> 0,
                   callers |-> [c \in Callers |-> IdleCaller]] :
                  o \in RateOps, l \in {APP_CREATION_LIMIT, KEY_CREATION_LIMIT}}

RateUnchanged == UNCHANGED <<pipeline, handlers, roundtrip, gd>>

\* check_limit up to its first await: current = await self.redis.get(key),
\* and the refusal of a key at its limit.
check_limit_get(c) ==
    /\ redis.op = "check_limit"
    /\ redis.callers[c].pc = "idle"
    /\ redis.callers[c].calls < MaxCalls
    /\ LET current == redis.key.value
           refused == current # None /\ Get(current) >= redis.limit
       IN redis' = [redis EXCEPT
                      !.callers[c].calls = @ + 1,
                      !.callers[c].current = IF refused THEN None ELSE current,
                      !.callers[c].result = IF refused THEN Some(FALSE) ELSE None,
                      !.callers[c].pc = IF refused THEN "idle" ELSE "pipe"]
    /\ RateUnchanged

\* check_limit from pipe.execute() on: INCR, and EXPIRE only when the GET
\* found no key; the call is allowed.
check_limit_execute(c) ==
    /\ redis.callers[c].pc = "pipe"
    /\ LET incremented == RedisIncrBy(redis.key, 1)
           key == IF redis.callers[c].current = None THEN RedisExpire(incremented)
                  ELSE incremented
       IN redis' = [redis EXCEPT
                      !.key = key,
                      !.allowed = @ + 1,
                      !.callers[c].result = Some(TRUE),
                      !.callers[c].current = None,
                      !.callers[c].amount = 1,
                      !.callers[c].pc = "idle"]
    /\ RateUnchanged

\* increment_and_check up to its first await: INCRBY.
increment_and_check_incrby(c) ==
    /\ redis.op = "increment_and_check"
    /\ redis.callers[c].pc = "idle"
    /\ redis.callers[c].calls < MaxCalls
    /\ \E amount \in Amounts :
         LET key == RedisIncrBy(redis.key, amount)
         IN redis' = [redis EXCEPT
                        !.key = key,
                        !.callers[c].calls = @ + 1,
                        !.callers[c].amount = amount,
                        !.callers[c].current = key.value,
                        !.callers[c].result = None,
                        !.callers[c].pc = "incremented"]
    /\ RateUnchanged

\* increment_and_check after INCRBY: EXPIRE for a new key, then the verdict.
increment_and_check_verdict(c) ==
    /\ redis.op = "increment_and_check"
    /\ redis.callers[c].pc = "incremented"
    /\ LET current == Get(redis.callers[c].current)
           allowed == ~(current > redis.limit)
       IN redis' = [redis EXCEPT
                      !.key = IF current = redis.callers[c].amount THEN RedisExpire(@) ELSE @,
                      !.allowed = IF allowed THEN @ + 1 ELSE @,
                      !.callers[c].result = Some(allowed),
                      !.callers[c].current = None,
                      !.callers[c].amount = 1,
                      !.callers[c].pc = "idle"]
    /\ RateUnchanged

\* record_violation up to its first await: INCR.
record_violation_incr(c) ==
    /\ redis.op = "record_violation"
    /\ redis.callers[c].pc = "idle"
    /\ redis.callers[c].calls < MaxCalls
    /\ LET key == RedisIncrBy(redis.key, 1)
       IN redis' = [redis EXCEPT
                      !.key = key,
                      !.callers[c].calls = @ + 1,
                      !.callers[c].current = key.value,
                      !.callers[c].result = None,
                      !.callers[c].pc = "incremented"]
    /\ RateUnchanged

\* record_violation after INCR: EXPIRE for the first violation; returns the count.
record_violation_count(c) ==
    /\ redis.op = "record_violation"
    /\ redis.callers[c].pc = "incremented"
    /\ LET count == Get(redis.callers[c].current)
       IN redis' = [redis EXCEPT
                      !.key = IF count = 1 THEN RedisExpire(@) ELSE @,
                      !.callers[c].result = Some(count),
                      !.callers[c].current = None,
                      !.callers[c].amount = 1,
                      !.callers[c].pc = "idle"]
    /\ RateUnchanged

\* A Redis command of the call raises: check_limit and increment_and_check
\* log the error and allow the call, record_violation returns 0.
RedisError(c) ==
    /\ \/ redis.callers[c].pc \in {"pipe", "incremented"}
       \/ redis.callers[c].pc = "idle" /\ redis.callers[c].calls < MaxCalls
    /\ redis' = [redis EXCEPT
                   !.errors = @ + 1,
                   !.allowed = IF redis.op = "record_violation" THEN @ ELSE @ + 1,
                   !.callers[c].calls = IF redis.callers[c].pc = "idle" THEN @ + 1 ELSE @,
                   !.callers[c].result = IF redis.op = "record_violation" THEN Some(0)
                                         ELSE Some(TRUE),
                   !.callers[c].current = None,
                      !.callers[c].amount = 1,
                      !.callers[c].pc = "idle"]
    /\ RateUnchanged

\* Redis drops the key when its expiry is due: the window is over.
KeyExpires ==
    /\ redis.key.value # None
    /\ redis.key.expires
    /\ redis' = [redis EXCEPT !.key = NoKey, !.allowed = 0]
    /\ RateUnchanged

NextRate ==
    \/ \E c \in Callers :
         \/ check_limit_get(c)
         \/ check_limit_execute(c)
         \/ increment_and_check_incrby(c)
         \/ increment_and_check_verdict(c)
         \/ record_violation_incr(c)
         \/ record_violation_count(c)
         \/ RedisError(c)
    \/ KeyExpires

SpecRate == InitRate /\ [][NextRate]_vars

\* No call of RateLimiter is between two of its awaits.
RateAtRest == \A c \in Callers : redis.callers[c].pc = "idle"

\* ------------------------------- threat_detectors.py: the detectors alone
\*
\* Each detector applied on its own to one text.

DetectAlphabet == {"hello", "--", "#", "<script>", "&#x27;", "&lt;script&gt;", "../"}
DetectTexts == UNION {[1..n -> DetectAlphabet] : n \in 0..MaxLen}
Detectors == {"sql_injection", "xss", "command_injection", "path_traversal"}

\* len(matches) of the detector on the text.
MatchCount(detector, text) ==
    CASE detector = "sql_injection" -> SumSeq(MapSeq(text, SqlMatches))
      [] detector = "xss" -> SumSeq(MapSeq(text, XssMatches))
      [] detector = "command_injection" -> SumSeq(MapSeq(text, CmdMatches))
      [] detector = "path_traversal" -> SumSeq(MapSeq(text, PathMatches))

InitDetect ==
    /\ PipelineAtRest
    /\ redis = None
    /\ handlers = <<>>
    /\ gd = None
    /\ roundtrip \in {[text |-> t, results |-> [d \in Detectors |-> None]] : t \in DetectTexts}

DetectSqlInjection ==
    /\ roundtrip.results["sql_injection"] = None
    /\ roundtrip' = [roundtrip EXCEPT
                       !.results["sql_injection"] = Some(detect_sql_injection(roundtrip.text))]
    /\ UNCHANGED <<pipeline, handlers, gd, redis>>

DetectXss ==
    /\ roundtrip.results["xss"] = None
    /\ roundtrip' = [roundtrip EXCEPT
                       !.results["xss"] = Some(detect_xss(roundtrip.text))]
    /\ UNCHANGED <<pipeline, handlers, gd, redis>>

DetectCommandInjection ==
    /\ roundtrip.results["command_injection"] = None
    /\ roundtrip' = [roundtrip EXCEPT
                       !.results["command_injection"] = Some(detect_command_injection(roundtrip.text))]
    /\ UNCHANGED <<pipeline, handlers, gd, redis>>

DetectPathTraversal ==
    /\ roundtrip.results["path_traversal"] = None
    /\ roundtrip' = [roundtrip EXCEPT
                       !.results["path_traversal"] = Some(detect_path_traversal(roundtrip.text))]
    /\ UNCHANGED <<pipeline, handlers, gd, redis>>

NextDetect ==
    \/ DetectSqlInjection
    \/ DetectXss
    \/ DetectCommandInjection
    \/ DetectPathTraversal

SpecDetect == InitDetect /\ [][NextDetect]_vars

\* The detector's result on a text.
DetectOn(d, text) ==
    CASE d = "sql_injection" -> detect_sql_injection(text)
      [] d = "xss" -> detect_xss(text)
      [] d = "command_injection" -> detect_command_injection(text)
      [] d = "path_traversal" -> detect_path_traversal(text)

\* ------------------ parallel_llm.py / llm_responder.py: max_output_tokens
\*
\* The generation text the model stage hands on, from the text the provider
\* returned. A text is its sequence of characters.

MaxTokens == 2
MaxResponseChars == 11

ResponseTexts == UNION {[1..n -> {"x"}] : n \in 0..MaxResponseChars}
MaxOutputTokens == {None} \cup {Some(n) : n \in 0..MaxTokens}

\* generate_response of parallel_llm.py: the manual truncation fallback.
generate_response(response_text, max_output_tokens) ==
    IF max_output_tokens # None /\ Get(max_output_tokens) # 0
    THEN LET char_limit == Get(max_output_tokens) * 4
         IN  IF Len(response_text) > char_limit
             THEN SubSeq(response_text, 1, char_limit) \o <<".", ".", ".">>
             ELSE response_text
    ELSE response_text

\* llm_responder_node: response.content as the provider returned it.
llm_responder_response(response_text, max_output_tokens) == response_text

InitTrunc ==
    /\ PipelineAtRest
    /\ redis = None
    /\ handlers = <<>>
    /\ gd = None
    /\ roundtrip \in {[node |-> n, max_output_tokens |-> m, provider |-> t, text |-> None] :
                      n \in LlmNodes, m \in MaxOutputTokens, t \in ResponseTexts}

GenerateResponse ==
    /\ roundtrip.node = "parallel_llm"
    /\ roundtrip.text = None
    /\ roundtrip' = [roundtrip EXCEPT
                       !.text = Some(generate_response(roundtrip.provider,
                                                       roundtrip.max_output_tokens))]
    /\ UNCHANGED <<pipeline, handlers, gd, redis>>

LlmResponderResponse ==
    /\ roundtrip.node = "llm_responder"
    /\ roundtrip.text = None
    /\ roundtrip' = [roundtrip EXCEPT
                       !.text = Some(llm_responder_response(roundtrip.provider,
                                                            roundtrip.max_output_tokens))]
    /\ UNCHANGED <<pipeline, handlers, gd, redis>>

NextTrunc == GenerateResponse \/ LlmResponderResponse

SpecTrunc == InitTrunc /\ [][NextTrunc]_vars

\* ------------------------- sanitizers.py: sanitize_input, character level
\*
\* InputSanitizer.sanitize_input on texts long enough to be truncated. A text
\* is a sequence of runs [c, n]: the piece c repeated n times. The pieces of
\* an input are single characters, all in NFKC normal form; html.escape turns
\* "<" into the piece "&lt;", and the cut at 10,000 characters can leave a
\* prefix of that piece.

MaxRuns == 3
RunCounts == {1, 2, MaxInputChars}
RunChars == {"a", " ", "\\t", "\\x00", ".", "/", "<"}
Runs == [c : RunChars, n : RunCounts]
RunTexts == UNION {[1..k -> Runs] : k \in 0..MaxRuns}

\* len(piece).
PieceLen(c) ==
    CASE c = "&lt;" -> 4
      [] c = "&lt" -> 3
      [] c = "&l" -> 2
      [] OTHER -> 1

\* piece[:r], 0 < r < len(piece).
PiecePrefix(c, r) ==
    CASE c = "&lt;" /\ r = 3 -> "&lt"
      [] c = "&lt;" /\ r = 2 -> "&l"
      [] c = "&lt;" /\ r = 1 -> "&"
      [] OTHER -> c

RunLen(r) == PieceLen(r.c) * r.n

\* len(text).
TextLen(text) == SumSeq(MapSeq(text, RunLen))

IsNulRun(r) == r.c = "\\x00"
NotNulRun(r) == ~IsNulRun(r)
IsWsRun(r) == r.c \in {" ", "\\t"}

RECURSIVE DotsBefore(_, _)
\* The number of "." characters that end just before run i.
DotsBefore(text, i) ==
    IF i = 1 THEN 0
    ELSE IF text[i - 1].c = "." THEN text[i - 1].n + DotsBefore(text, i - 1)
    ELSE 0

\* PATH_TRAVERSAL_PATTERN.search(text): two dots and a path separator.
HasTraversal(text) ==
    \E i \in 1..Len(text) : text[i].c = "/" /\ DotsBefore(text, i) >= 2

\* html.escape(text).
EscapeRun(r) == IF r.c = "<" THEN [r EXCEPT !.c = "&lt;"] ELSE r

RECURSIVE DropWsRuns(_)
\* text.lstrip() on runs.
DropWsRuns(text) ==
    IF text = <<>> THEN <<>>
    ELSE IF IsWsRun(Head(text)) THEN DropWsRuns(Tail(text))
    ELSE text

RECURSIVE CollapseRuns(_)
\* ' '.join(text.split())
CollapseRuns(text) ==
    LET t == DropWsRuns(text)
    IN  IF t = <<>> THEN <<>>
        ELSE IF Len(t) > 1 /\ IsWsRun(t[2])
             THEN IF DropWsRuns(Tail(t)) = <<>> THEN <<t[1]>>
                  ELSE <<t[1], [c |-> " ", n |-> 1]>> \o CollapseRuns(Tail(t))
             ELSE <<t[1]>> \o CollapseRuns(Tail(t))

\* A faulty cut that keeps the whole text.
KeepAllChars(text, k) == text

RECURSIVE TakeChars(_, _)
\* text[:k]
TakeChars(text, k) ==
    IF text = <<>> \/ k = 0 THEN <<>>
    ELSE IF RunLen(text[1]) <= k
         THEN <<text[1]>> \o TakeChars(Tail(text), k - RunLen(text[1]))
         ELSE LET q == k \div PieceLen(text[1].c)
                  r == k % PieceLen(text[1].c)
              IN  (IF q > 0 THEN <<[text[1] EXCEPT !.n = q]>> ELSE <<>>)
                  \o (IF r > 0 THEN <<[c |-> PiecePrefix(text[1].c, r), n |-> 1]>>
                      ELSE <<>>)

\* The text after steps 1-5 (normalise, strip NUL, escape, collapse).
SanitizedUncut(text) == CollapseRuns(MapSeq(SelectSeq(text, NotNulRun), EscapeRun))

\* InputSanitizer.sanitize_input: the text and the warnings, each warning a
\* sequence of pieces.
InputSanitizer_sanitize_input(text) ==
    LET hasNul == \E i \in 1..Len(text) : IsNulRun(text[i])
        t2 == SelectSeq(text, NotNulRun)
        t5 == SanitizedUncut(text)
        tooLong == TextLen(t5) > MaxInputChars
    IN  [text |-> IF tooLong THEN TakeChars(t5, MaxInputChars) ELSE t5,
         warnings |->
            (IF hasNul THEN <<<<"Null bytes detected and removed">>>> ELSE <<>>)
            \o (IF HasTraversal(t2) THEN <<<<"Path traversal pattern detected">>>> ELSE <<>>)
            \o (IF tooLong
                THEN <<<<"Input truncated from ">> \o IntStr(TextLen(t5)) \o <<" to ">>
                       \o IntStr(MaxInputChars) \o <<" characters">>>>
                ELSE <<>>)]

InitSanitize ==
    /\ PipelineAtRest
    /\ redis = None
    /\ handlers = <<>>
    /\ gd = None
    /\ roundtrip \in {[input |-> t, result |-> None] : t \in RunTexts}

SanitizeInput ==
    /\ roundtrip.result = None
    /\ roundtrip' = [roundtrip EXCEPT
                       !.result = Some(InputSanitizer_sanitize_input(roundtrip.input))]
    /\ UNCHANGED <<pipeline, handlers, gd, redis>>

NextSanitize == SanitizeInput

SpecSanitize == InitSanitize /\ [][NextSanitize]_vars

\* A text that needs no sanitizing: no NUL, no traversal sequence, no HTML
\* character, no whitespace but single spaces between words, within the limit.
CleanText(text) ==
    /\ \A i \in 1..Len(text) :
          /\ text[i].c \notin {"\\x00", "<", "\\t"}
          /\ text[i].c = " " => /\ text[i].n = 1
                                /\ 1 < i /\ i < Len(text)
                                /\ text[i - 1].c # " " /\ text[i + 1].c # " "
    /\ ~HasTraversal(text)
    /\ TextLen(text) <= 10000

\* ================================================================ claims

\* C1: once a Sentinel stage has set is_blocked, the verdict is terminal: the
\* state keeps is_blocked and every text it holds, and no stage runs, no model
\* call is issued and Guardian is not called afterwards.
C1_BlockedIsTerminal ==
    [][st.is_blocked =>
          /\ st'.is_blocked
          /\ st' = st
          /\ stages' = stages
          /\ calls' = calls
          /\ tasks' = tasks
          /\ grd' = grd]_vars

\* A request blocked by security_check, answered, where compact encoding and
\* forwarding are both switched on: only the security stage ran.
C1_Witness ==
    /\ st.is_blocked
    /\ reply # None
    /\ settings.TOON_CONVERSION_ENABLED /\ settings.LLM_FORWARD_ENABLED
    /\ stages = <<"security_agent">>
    /\ st.toon_query = None

C4_Authentication ==
    LET h == req.api_key
        known == h # None /\ Hash(Get(h)) \in DOMAIN InitialTable
        row == InitialTable[Hash(Get(h))]
        failed(status) == gw.via = "auth" /\ Get(gw.response).status = status
    IN  /\ gw.pc # "auth" =>
              IF ~known THEN failed(401)
              ELSE IF ~row.is_active THEN failed(403)
              ELSE IF row.application = None THEN failed(401)
              ELSE gw.via # "auth"
        /\ spc # "idle" => known /\ row.is_active /\ row.application # None

\* A stored key that is disabled and has no application was refused with 403.
C4_Witness ==
    /\ req.api_key = Some("k-disabled-orphan")
    /\ gw.via = "auth"
    /\ Get(gw.response).status = 403
    /\ spc = "idle"

C8_AccountingOnlyAfterModelCall ==
    db # InitialTable => tasks.gen.status = "done"

\* C9: for a request blocked before the model fan-out, the llm_tokens total
\* Sentinel reports is 0 (no record is a total of 0) and the key's row is
\* unchanged.
C9_BlockedBeforeFanout ==
    (st.is_blocked /\ tasks.gen.status = "idle") =>
        /\ (IF st.llm_tokens_used = None THEN 0 ELSE Get(st.llm_tokens_used).total) = 0
        /\ reply # None =>
              (IF Get(reply).metrics.llm_tokens = None THEN 0
               ELSE Get(Get(reply).metrics.llm_tokens).total) = 0
        /\ db = InitialTable
        /\ gw.api_key # None => Get(gw.api_key).request_count = 0

\* The Gateway answered a request that security_check blocked.
C9_Witness ==
    /\ st.is_blocked
    /\ tasks.gen.status = "idle"
    /\ gw.via = "reply"
    /\ Get(gw.response).status = 400

C6_RoundTrip ==
    roundtrip.pc = "restored" =>
        /\ roundtrip.text = roundtrip.x
        /\ \A i, j \in 1..Len(roundtrip.mapping) :
              i # j => /\ roundtrip.mapping[i][1] # roundtrip.mapping[j][1]
                       /\ roundtrip.mapping[i][2] # roundtrip.mapping[j][2]

\* C7: when N concurrent handlers of non-blocked requests on one key have all
\* completed, the key's request_count has grown by N and its usage_data by the
\* sum of the requests' token counts.
C7_NoLostUpdate ==
    (\A h \in 1..NumHandlers : handlers[h].pc = "done") =>
        LET row == db[Hash(SharedKey)]
            usage == row.usage_data["gemini-3-flash-preview"]
        IN  /\ row.request_count = NumHandlers
            /\ usage.input_tokens =
                   SumSeq([h \in 1..NumHandlers |-> handlers[h].input_tokens])
            /\ usage.output_tokens =
                   SumSeq([h \in 1..NumHandlers |-> handlers[h].output_tokens])

\* C11: when the model call or the Guardian call of a request failed (timeout
\* or transport error) and the Gateway answered from Sentinel's reply, the
\* client's answer is HTTP 503.
C11_UpstreamFailureIs503 ==
    (/\ gw.pc = "done"
     /\ gw.via = "reply"
     /\ \/ tasks.gen.status = "raised"
        \/ tasks.audit.status = "raised"
        \/ grd.status = "failed")
    => Get(gw.response).status = 503

\* C12: every step in which a node of the Sentinel pipeline raises leaves the
\* verdict blocked, with score 1.0 and reason 'Security verification failed'.
C12_ExceptionBlocks ==
    [][(SecurityCheckRaises \/ SecurityLlmRaises \/ GenerationRaises \/ AuditRaises)
       => /\ st'.is_blocked
          /\ st'.security_score = 1000
          /\ st'.block_reason = Some(<<"Security verification failed">>)]_vars

\* C13: once the model stage has issued its generation call the security-audit
\* call is issued too (both are in flight together), and Guardian is called,
\* i.e. the stage continues, only when both calls have returned.
C13_FanoutConcurrentAndJoined ==
    /\ tasks.gen.status # "idle" => tasks.audit.status # "idle"
    /\ grd.status # "idle" => tasks.gen.status = "done" /\ tasks.audit.status = "done"

\* C14: the join of an audited request blocks, with the reason
\* 'LLM security: <type> (confidence: <.2f>)', the completion dropped and
\* Guardian not called, exactly when the audit says is_threat with a confidence
\* above 0.7; otherwise the request goes on to Guardian unblocked. A reply that
\* could not be parsed counts as no threat and never blocks.
C14_AuditVerdict ==
    [][(FanoutJoin /\ tasks.audit.status = "done")
       => LET audit == Get(tasks.audit.result)
              threat == audit.is_threat /\ audit.confidence > 700
          IN  /\ threat =>
                    /\ st'.is_blocked
                    /\ st'.block_reason =
                           Some(<<"LLM security: ", audit.threat_type, " (confidence: ">>
                                \o Fmt2(audit.confidence) \o <<")">>)
                    /\ st'.llm_response = None
                    /\ grd'.status = "idle"
                    /\ spc' = "END"
              /\ ~threat =>
                    /\ ~st'.is_blocked
                    /\ grd'.status = "called"
              /\ audit.reasoning = "Parse error" => ~threat]_vars

\* An audit that reported a threat with confidence 0.9 blocked the request
\* before Guardian was called, and the reply carries the formatted reason.
C14_Witness ==
    /\ tasks.audit.status = "done"
    /\ tasks.gen.status = "done"
    /\ Get(tasks.audit.result).is_threat
    /\ Get(tasks.audit.result).confidence = 900
    /\ st.is_blocked
    /\ spc = "done"
    /\ grd.status = "idle"
    /\ Get(reply).block_reason
           = Some(<<"LLM security: ", "sql_injection", " (confidence: ",
                    "0", ".", "9", "0", ")">>)

\* C15: the judge calls of one validation are dispatched together: whenever
\* Guardian issues a judge call, no judge call of the same validation has
\* already returned (the calls are never run one after another).
C15_JudgesDispatchedTogether ==
    [][\A j \in JudgeNames :
          (gd.judges[j].status # "running" /\ gd'.judges[j].status = "running")
          => \A k \in JudgeNames : gd.judges[k].status # "returned"]_vars

C17_StageOrder ==
    LET StageClass(node) ==
            CASE node = "content_filter" -> 1
              [] node = "pii_scanner" -> 2
              [] node = "toon_decoder" -> 3
              [] node = "disclaimer_injector" -> 5
              [] OTHER -> 4
        stages_ == gd.stages
        FilterRan == stages_ # <<>> /\ gd.pc # "toxicity_scoring"
        tox == IF gd.judges["toxicity_scoring"].status = "returned"
               THEN Get(gd.judges["toxicity_scoring"].outcome)
               ELSE [kind |-> "failed", toxicity_score |-> 0]
        FilterBlocked ==
            content_filter_node(GuardianInitialState(gd.request, gd.wiring), tox).content_blocked
    IN  /\ stages_ # <<>> => StageClass(stages_[1]) = 1
        /\ \A i \in 1..(Len(stages_) - 1) :
              \/ StageClass(stages_[i + 1]) = StageClass(stages_[i]) + 1
              \/ StageClass(stages_[i + 1]) = 4 /\ StageClass(stages_[i]) = 4
        /\ (gd.pc = "done" /\ ~Get(gd.response).content_blocked)
           => StageClass(stages_[Len(stages_)]) = 5
        /\ (FilterRan /\ FilterBlocked)
           => /\ stages_ = <<"content_filter">>
              /\ gd.pc \in {"END", "done"}
              /\ gd.pc = "done"
                 => /\ Get(gd.response).content_blocked
                    /\ ~Get(gd.response).validation_passed
                    /\ Get(gd.response).validated_response = None

\* A harmful completion was blocked by content_filter in mode relaxed: the
\* validation answered after that one stage, without a validated response.
C17_Witness ==
    /\ gd.pc = "done"
    /\ gd.request.llm_response = <<"kill someone">>
    /\ gd.request.moderation_mode = "relaxed"
    /\ gd.stages = <<"content_filter">>
    /\ Get(gd.response).content_blocked
    /\ Get(gd.response).validated_response = None

C19_ModerationTable ==
    LET Table(mode, c) ==
            CASE mode = "strict" -> "block"
              [] mode = "moderate" /\ c = "harmful" -> "block"
              [] mode = "moderate" /\ c = "inappropriate" -> "warn"
              [] mode = "relaxed" /\ c = "harmful" -> "block"
              [] OTHER -> "allow"
        mode == gd.request.moderation_mode
        text == gd.request.llm_response
        Detected(c) == \E i \in 1..Len(text) : text[i] \in CategoryPhrases(c)
        Acts(c, action) == Detected(c) /\ Table(mode, c) = action
        Warned(c) == IF Acts(c, "warn") THEN <<<<c, ": flagged for review">>>> ELSE <<>>
        score == IF gd.state.toxicity_score = None THEN 0
                 ELSE Get(gd.state.toxicity_score)
    IN  (/\ gd.stages = <<"content_filter">>
         /\ gd.pc \in {"pii_scanner", "END"}
         /\ mode \in {"strict", "moderate", "relaxed"})
        => /\ \A c \in Range(Categories) : Acts(c, "block") => gd.state.content_blocked
           /\ gd.state.content_warnings
                 = Warned("harmful") \o Warned("inappropriate") \o Warned("sensitive")
           /\ (gd.state.content_blocked /\ \A c \in Range(Categories) : ~Acts(c, "block"))
                 => score >= ToxicityThresholdOf(gd.request.guardrails)

\* An inappropriate and sensitive completion went through content_filter in
\* mode moderate with a low toxicity score: it was not blocked and carries the
\* one warning about the inappropriate category.
C19_Witness ==
    /\ gd.stages = <<"content_filter">>
    /\ gd.pc = "pii_scanner"
    /\ gd.request.moderation_mode = "moderate"
    /\ gd.request.llm_response = <<"explicit", "political">>
    /\ gd.judges["toxicity_scoring"].status = "returned"
    /\ ~gd.state.content_blocked
    /\ gd.state.content_filtered
    /\ gd.state.content_warnings = <<<<"inappropriate", ": flagged for review">>>>

\* C20: when content_filter has run on a completion that matches no harmful,
\* inappropriate or sensitive pattern, the completion is not blocked, whatever
\* the moderation mode and the toxicity threshold.
C20_NoMatchPasses ==
    (/\ gd.stages = <<"content_filter">>
     /\ gd.pc \in {"pii_scanner", "END"}
     /\ ~AnyDetected(pattern_based_filter(gd.request.llm_response)))
    => ~gd.state.content_blocked


\* C21: when a /chat request with content_filter enabled was answered and a
\* toxicity judge of Guardian scored its completion at or above the request's
\* toxicity_threshold (0.7 when the request gives none), the answer is a 400
\* whose reason reports that score.
C21_ToxicityThresholdBlocks ==
    LET answers == Get(grd.result).judge_answers
        threshold == IF req.settings.toxicity_threshold = None THEN ToxicityThreshold
                     ELSE Get(req.settings.toxicity_threshold)
        response == Get(gw.response)
        Mentions(reason, score) ==
            \E i \in 1..Len(reason) :
                i + 3 <= Len(reason) /\ SubSeq(reason, i, i + 3) = Fmt2(score)
    IN  (/\ gw.pc = "done" /\ gw.via = "reply"
         /\ grd.status = "returned"
         /\ req.settings.content_filter)
        => \A i \in 1..Len(answers) :
              (answers[i].kind = "scored" /\ answers[i].toxicity_score >= threshold)
              => /\ response.status = 400
                 /\ Mentions(response.body.detail.reason, answers[i].toxicity_score)


\* C22: when Guardian's pii_scanner has run on a completion, every SSN in it
\* is replaced by its redaction marker, output_redacted is set iff the
\* completion held an SSN, and every e-mail address and IP address is reported
\* in output_pii_leaks with its text left as it was.
C22_OnlyHighSeverityRedacted ==
    LET before == gd.request.llm_response
        after == gd.state.llm_response
        leaks == gd.state.output_pii_leaks
        Reported(type) == \E k \in 1..Len(leaks) : leaks[k].type = type
    IN  (gd.stages = <<"content_filter", "pii_scanner">> /\ gd.pc = "toon_decoder")
        => /\ Len(after) = Len(before)
           /\ gd.state.output_redacted <=> \E i \in 1..Len(before) : before[i] \in SsnLiterals
           /\ \A i \in 1..Len(before) :
                 /\ before[i] \in SsnLiterals => after[i] = "[SSN_REDACTED]"
                 /\ before[i] \in EmailLiterals => after[i] = before[i] /\ Reported("EMAIL")
                 /\ before[i] \in IpLiterals => after[i] = before[i] /\ Reported("IP_ADDRESS")


\* C23: when a /chat request was answered 200 after Guardian validated its
\* completion: with auto_disclaimers enabled and a completion holding two
\* keywords of the medical lexicon, the returned response ends with the
\* medical disclaimer and the metrics carry disclaimer_injected = true; with
\* auto_disclaimers disabled the returned response holds no disclaimer.
C23_DisclaimerInjected ==
    LET response == Get(gw.response)
        completion == Get(tasks.gen.result).text
        returned == Get(response.body.response)
    IN  (/\ gw.pc = "done" /\ gw.via = "reply"
         /\ grd.status = "returned"
         /\ response.status = 200
         /\ response.body.response # None)
        => /\ (req.settings.auto_disclaimers /\ detect_advice_type(completion) # None)
                 => /\ returned # <<>>
                    /\ returned[Len(returned)] = "MEDICAL_DISCLAIMER"
                    /\ response.body.metrics.disclaimer_injected = Some(TRUE)
           /\ ~req.settings.auto_disclaimers
                 => \A i \in 1..Len(returned) : returned[i] # "MEDICAL_DISCLAIMER"


\* C24: once security_check has returned for a request with pii_masking =
\* false, pii_detections and the PII map are empty and no pseudonymized text
\* was produced, whatever the service settings.
C24_NoMaskingNoPseudonymization ==
    (/\ ~req.settings.pii_masking
     /\ spc \notin {"idle", "security", "security_llm_wait"})
    => /\ st.pii_detections = <<>>
       /\ st.pii_mapping = <<>>
       /\ st.redacted_input \in {None, st.sanitized_input, Some(req.query)}

\* C25: once security_check has returned for a request with detect_threats =
\* false, detected_threats is empty and the request was not blocked by the
\* threat-detection step.
C25_NoDetectionWhenDisabled ==
    (/\ ~req.settings.detect_threats
     /\ spc \notin {"idle", "security", "security_llm_wait"})
    => /\ st.detected_threats = <<>>
       /\ st.block_reason # None
             => Head(Get(st.block_reason)) # "Security threats detected: "

\* C26: for every JSON value v (objects, arrays, strings, numbers, booleans,
\* null, keys that equal an abbreviation and strings that hold '~', 'T' or
\* 'F' included), decoding the compact encoding of v yields a value equal to
\* v, with Sentinel's from_toon and with Guardian's ToonDecoder.decode alike.
C26_ToonRoundTrip ==
    roundtrip.pc = "decoded" => JEq(roundtrip.decoded, roundtrip.x)

\* C27: for every input, compact-encode records tokens_saved =
\* (orig_chars - encoded_chars)/4 clamped below at 0, orig_chars and
\* encoded_chars being the character counts before and after encoding (the
\* quotient read as the integer one); tokens_saved is never negative.
C27_TokensSaved ==
    roundtrip.pc # "data"
    => /\ roundtrip.tokens_saved
          = Max2(0, (roundtrip.original_chars - roundtrip.toon_chars) \div CHARS_PER_TOKEN)
       /\ roundtrip.tokens_saved >= 0

\* C28: in every response that carries token usage, total = input + output,
\* where input and output are each the count the provider reported when that
\* count is non-zero, and otherwise the length of the prompt / of the
\* completion divided by 4 (integer division).
C28_TokenUsage ==
    [][/\ (tasks.gen.status = "running" /\ tasks'.gen.status = "done")
          => \E c \in Completions(ModelQuery(st, req.query)) :
                LET gen == Get(tasks'.gen.result)
                IN  /\ gen.text = c.text
                    /\ gen.input_tokens
                       = (IF c.prompt_token_count # 0 THEN c.prompt_token_count
                          ELSE CharLen(ModelQuery(st, req.query)) \div 4)
                    /\ gen.output_tokens
                       = (IF c.candidates_token_count # 0 THEN c.candidates_token_count
                          ELSE CharLen(c.text) \div 4)
       /\ (reply' # None /\ Get(reply').metrics.llm_tokens # None)
          => LET t == Get(Get(reply').metrics.llm_tokens)
                 gen == Get(tasks'.gen.result)
             IN  /\ t.input = gen.input_tokens
                 /\ t.output = gen.output_tokens
                 /\ t.total = t.input + t.output
       /\ (gw'.pc = "done" /\ gw'.via = "reply" /\ Get(gw'.response).status = 200
           /\ Get(gw'.response).body.metrics.token_usage # None)
          => LET u == Get(Get(gw'.response).body.metrics.token_usage)
                 gen == Get(tasks'.gen.result)
             IN  /\ u.input_tokens = gen.input_tokens
                 /\ u.output_tokens = gen.output_tokens
                 /\ u.total_tokens = u.input_tokens + u.output_tokens]_vars

\* A 200 whose usage was estimated from the texts: the provider reported no
\* counts for a prompt of at least 4 characters and the completion 'fine'.
C28_Witness ==
    /\ gw.pc = "done"
    /\ gw.via = "reply"
    /\ Get(gw.response).status = 200
    /\ Get(gw.response).body.response = Some(<<"fine">>)
    /\ CharLen(ModelQuery(st, req.query)) >= 4
    /\ Get(gw.response).body.metrics.token_usage
       = Some([input_tokens |-> CharLen(ModelQuery(st, req.query)) \div 4,
               output_tokens |-> 1,
               total_tokens |-> CharLen(ModelQuery(st, req.query)) \div 4 + 1])

\* C29: across the stages of one request security_score never decreases:
\* it starts at 0.0, no step lowers the score of the state, and the score
\* step 4 of the security stage returns is no lower than the threat score
\* step 3 measured.
C29_ScoreNonDecreasing ==
    [][/\ st'.security_score >= st.security_score
       /\ (spc = "security" /\ spc' # "security") => st.security_score = 0
       /\ (spc = "security_llm_wait" /\ spc' # "security_llm_wait"
           /\ Get(tasks.sec).result.detected_threats # <<>>)
          => st'.security_score >= MaxConfidence(Get(tasks.sec).result.detected_threats)]_vars

\* Step 4 ran on a prompt with threats below the block threshold and the
\* chain scored it lower than the detectors: the threat score is kept.
C29_Witness ==
    /\ spc \notin {"idle", "security", "security_llm_wait"}
    /\ tasks.sec # None
    /\ ~st.is_blocked
    /\ st.detected_threats # <<>>
    /\ st.security_score = MaxConfidence(st.detected_threats)
    /\ st.security_score > 100

\* C30: every blocked verdict carries a non-empty reason: whenever Sentinel
\* returns is_blocked = true, block_reason is a non-empty string, the body of
\* the Gateway's 400 has that reason, and X-Security-Decision is 'blocked: '
\* followed by it.
C30_BlockedCarriesReason ==
    /\ (reply # None /\ Get(reply).is_blocked)
       => /\ Get(reply).block_reason # None
          /\ Get(Get(reply).block_reason) # <<>>
    /\ (gw.pc = "done" /\ gw.via = "reply" /\ Get(gw.response).status = 400)
       => /\ Get(reply).block_reason # None
          /\ Get(gw.response).body.detail.reason = Get(Get(reply).block_reason)
          /\ Get(gw.response).body.detail.reason # <<>>
          /\ Get(Get(gw.response).headers).decision
             = <<"blocked: ">> \o Get(Get(reply).block_reason)

\* C31: the security-audit event emitted on a threat block consists only of
\* event type, severity, timestamp, service, violated policy types, threat
\* score, client IP and user agent: two blocked requests with the same threat
\* types, score and client metadata but different prompt text emit events that
\* are identical apart from the timestamp.
C31_AuditEventWithoutPayload ==
    (roundtrip.ran = <<TRUE, TRUE>>
     /\ Get(roundtrip.logs[1]).verdict.is_blocked
     /\ Get(roundtrip.logs[2]).verdict.is_blocked
     /\ Get(roundtrip.logs[1]).verdict.threat_types
        = Get(roundtrip.logs[2]).verdict.threat_types
     /\ SeqMax(Get(roundtrip.logs[1]).verdict.threat_scores)
        = SeqMax(Get(roundtrip.logs[2]).verdict.threat_scores))
    => LET e1 == Get(Get(roundtrip.logs[1]).event)
           e2 == Get(Get(roundtrip.logs[2]).event)
       IN  /\ DOMAIN e1 = {"event_type", "severity", "timestamp", "service",
                           "policy_violated", "threat_score", "client_ip", "user_agent"}
           /\ [e1 EXCEPT !.timestamp = "t"] = [e2 EXCEPT !.timestamp = "t"]
           /\ e1.event_type = "THREAT_BLOCKED" /\ e1.severity = "HIGH"

\* Two requests with different prompts, both blocked for path traversal at 0.8.
C31_Witness ==
    /\ roundtrip.ran = <<TRUE, TRUE>>
    /\ roundtrip.prompts[1] # roundtrip.prompts[2]
    /\ Get(roundtrip.logs[1]).event # None
    /\ Get(roundtrip.logs[2]).event # None
    /\ Get(Get(roundtrip.logs[1]).event).policy_violated = <<"path_traversal">>
    /\ Get(Get(roundtrip.logs[2]).event).policy_violated = <<"path_traversal">>
    /\ Get(Get(roundtrip.logs[1]).event).threat_score = 800
    /\ Get(Get(roundtrip.logs[2]).event).threat_score = 800

\* C32: no log line or telemetry metric emitted while a request is processed
\* contains raw prompt text, a PII literal, a PII token value or completion
\* text: two requests that differ only in the text but agree on detected
\* types, counts, scores and verdict emit the same log and metric contents.
C32_LogsWithoutText ==
    (roundtrip.ran = <<TRUE, TRUE>>
     /\ Get(roundtrip.logs[1]).verdict = Get(roundtrip.logs[2]).verdict)
    => Get(roundtrip.logs[1]).lines = Get(roundtrip.logs[2]).lines


\* C33: concurrent check_limit calls on one key never let more than `limit`
\* calls through within one window of the key (at most 2 app creations and
\* 4 key creations), here with Redis answering every command.
C33_AtMostLimitAllowed ==
    (redis.op = "check_limit" /\ redis.errors = 0) => redis.allowed <= redis.limit

\* C40: every rate-limit key that exists while no call is between two of its
\* Redis commands carries an expiry, so that Redis ends its window and the
\* user is allowed again; here with Redis answering every command.
C40_EveryKeyExpires ==
    (RateAtRest /\ redis.errors = 0 /\ redis.key.value # None) => redis.key.expires


\* C34: a detector that ran on a text with m pattern matches reports
\* detected iff m > 0 and confidence min(0.3 m, 1.0) (0.4 m for path
\* traversal); the confidence never exceeds 1.0, is 0 exactly when nothing
\* is detected, and is not below the confidence on any shorter prefix of the
\* text (fewer matches).
C34_DetectorConfidence ==
    \A d \in Detectors :
        roundtrip.results[d] # None =>
            LET r == Get(roundtrip.results[d])
                m == MatchCount(d, roundtrip.text)
                per == IF d = "path_traversal" THEN 400 ELSE 300
            IN  /\ r.detected <=> m > 0
                /\ r.confidence = (IF m * per <= 1000 THEN m * per ELSE 1000)
                /\ r.confidence <= 1000
                /\ r.confidence = 0 <=> ~r.detected
                /\ \A k \in 0..Len(roundtrip.text) :
                      LET p == DetectOn(d, SubSeq(roundtrip.text, 1, k))
                      IN  /\ MatchCount(d, SubSeq(roundtrip.text, 1, k)) <= m
                          /\ p.confidence <= r.confidence

\* Path traversal ran on three "../" (1.2 capped to 1.0) and command
\* injection on a text without a match.
C34_Witness ==
    /\ roundtrip.text = <<"../", "../", "../">>
    /\ roundtrip.results["path_traversal"] # None
    /\ Get(roundtrip.results["path_traversal"]).confidence = 1000
    /\ roundtrip.results["command_injection"] # None
    /\ ~Get(roundtrip.results["command_injection"]).detected


\* C35: with max_output_tokens set, the generation text the model stage
\* hands on has at most 4 * max_output_tokens characters.
C35_TextWithinCharLimit ==
    (roundtrip.text # None /\ roundtrip.max_output_tokens # None)
        => Len(Get(roundtrip.text)) <= 4 * Get(roundtrip.max_output_tokens)


\* C36: sanitize_input returns, for every input, a text of at most 10,000
\* characters with no NUL byte and no two whitespace characters in a row; its
\* warnings are exactly: the NUL warning when the input held a NUL byte, the
\* traversal warning when the text (NUL bytes removed) holds ".." and a path
\* separator, the truncation warning when the text was cut; and a text that
\* needs no sanitizing comes back unchanged with no warnings.
C36_SanitizeInput ==
    roundtrip.result # None =>
        LET input == roundtrip.input
            out == Get(roundtrip.result).text
            warnings == Get(roundtrip.result).warnings
            cut == TextLen(out) < TextLen(SanitizedUncut(input))
        IN  /\ TextLen(out) <= 10000
            /\ \A i \in 1..Len(out) :
                  /\ out[i].c # "\\x00"
                  /\ IsWsRun(out[i]) => /\ out[i].n = 1
                                        /\ i < Len(out) => ~IsWsRun(out[i + 1])
            /\ (<<"Null bytes detected and removed">> \in Range(warnings))
                  <=> (\E i \in 1..Len(input) : input[i].c = "\\x00")
            /\ (<<"Path traversal pattern detected">> \in Range(warnings))
                  <=> HasTraversal(SelectSeq(input, NotNulRun))
            /\ (\E w \in Range(warnings) : Head(w) = "Input truncated from ") <=> cut
            /\ Len(warnings) = Cardinality(Range(warnings))
            /\ CleanText(input) => out = input /\ warnings = <<>>

\* The text "../" followed by 10,000 "<" was sanitized: the traversal and
\* the truncation warning, the escaped text cut at 10,000 characters.
C36_Witness ==
    /\ roundtrip.result # None
    /\ roundtrip.input = <<[c |-> ".", n |-> 2], [c |-> "/", n |-> 1],
                           [c |-> "<", n |-> 10000]>>
    /\ Len(Get(roundtrip.result).warnings) = 2
    /\ TextLen(Get(roundtrip.result).text) = 10000


\* C37: a blocked verdict carries no completion: Sentinel's reply of a
\* blocked request has llm_response null, and the response the client gets
\* holds no completion text: it is the 400 "Request blocked" when the Gateway
\* answers from the reply, an error status otherwise.
C37_BlockedWithoutCompletion ==
    (reply # None /\ Get(reply).is_blocked) =>
        /\ Get(reply).llm_response = None
        /\ gw.response # None =>
              /\ "response" \notin DOMAIN Get(gw.response).body
              /\ Get(gw.response).status # 200
              /\ gw.via = "reply" =>
                    /\ Get(gw.response).status = 400
                    /\ DOMAIN Get(gw.response).body.detail = {"error", "reason"}

\* Guardian blocked a generated completion, and the Gateway answered the
\* client from Sentinel's blocked reply.
C37_Witness ==
    /\ reply # None
    /\ Get(reply).is_blocked
    /\ Get(reply).block_reason # None
    /\ Head(Get(Get(reply).block_reason)) = "Output blocked: "
    /\ calls # <<>>
    /\ gw.via = "reply"
    /\ gw.response # None
    /\ Get(gw.response).status = 400


\* C38: with sanitization enabled, a prompt on which every detector reports
\* a confidence below 0.7 when run on the raw text is not blocked by the
\* threat detection of security_check, which runs on the sanitized text.
C38_SanitizationCreatesNoBlock ==
    (/\ settings.SECURITY_SANITIZATION_ENABLED
     /\ \A d \in Detectors : DetectOn(d, req.query).confidence < 700)
        => ~(/\ st.is_blocked
             /\ st.block_reason # None
             /\ Head(Get(st.block_reason)) = "Security threats detected: ")


\* C39: in every verdict of security_check the security_score is at least
\* the confidence of each entry of detected_threats, and the verdict is
\* blocked whenever an entry has a confidence of 0.7 or more.
C39_ScoreCoversThreats ==
    \A i \in 1..Len(st.detected_threats) :
        /\ st.security_score >= st.detected_threats[i].confidence
        /\ st.detected_threats[i].confidence >= 700 => st.is_blocked

\* security_check returned a blocking verdict for two detections, one of
\* them below 0.7, with the score of the higher one.
C39_Witness ==
    /\ Len(st.detected_threats) = 2
    /\ \E i \in 1..2 : st.detected_threats[i].confidence < 700
    /\ \E i \in 1..2 : st.detected_threats[i].confidence >= 700
    /\ st.is_blocked
    /\ st.security_score = MaxConfidence(st.detected_threats)
    /\ "security_agent" \in Range(stages)
====
